---- MODULE Spec2Model ----
(***************************************************************************)
(* Model of github-pg-query: the transactional batch persister            *)
(* (src/src/database.rs), the record validator (src/src/models.rs) and    *)
(* the retrying search client (src/src/github.rs).                        *)
(*                                                                         *)
(* The store is PostgreSQL at its default isolation level (READ           *)
(* COMMITTED): the writes of an open transaction are invisible to every   *)
(* other session until COMMIT, which publishes them all at once; a        *)
(* transaction that is dropped without COMMIT is rolled back; a row       *)
(* written by an open transaction is locked against writers of the same   *)
(* key until that transaction ends; a lock cycle is broken by the store   *)
(* aborting one of its members.                                           *)
(***************************************************************************)
EXTENDS Integers, Sequences, FiniteSets, TLC

(***************************************************************************)
(* Bounds of the model.                                                    *)
(***************************************************************************)
MaxId == 2
MaxBatch == 2
MaxRetries == 7
WordBits == 24
MaxMetadata == 2

\* Option<T>
None == <<>>

Some(v) == <<v>>

unwrap_or(o, d) == IF o = None THEN d ELSE o[1]

(***************************************************************************)
(* Input domains.                                                          *)
(***************************************************************************)
Callers == {"c1", "c2"}
TableNames == {"repos_20240101000000", "repos_20240101000001"}
Ids == 1..MaxId
FullNames == {"", "o/r"}
StarCounts == {10, 99}
OwnerLogins == {"octocat"}
Languages == {Some("Rust")}

\* models::Repository, reduced to the columns the statistics and the
\* validator's first and numeric rules read.
Repository ==
    [id: Ids, full_name: FullNames, stargazers_count: StarCounts,
     owner_login: OwnerLogins, language: Languages,
     created_at: {1}, owner_id: {7}]

\* The sequences over S of length at most n.
SeqsUpTo(S, n) == UNION {[1..k -> S] : k \in 0..n}

Batches == SeqsUpTo(Repository, MaxBatch)

\* The records of the calls whose statistics are read: of two owners, with a
\* language that may be absent.
StatsOwnerLogins == {"octocat", "rust-lang"}
StatsLanguages == {None, Some("Rust"), Some("Go")}

\* Each owner's repositories have one star count.
OwnerStars == [o \in StatsOwnerLogins |-> IF o = "octocat" THEN 10 ELSE 99]

StatsRepository ==
    {r \in [id: Ids, full_name: {"o/r"}, stargazers_count: StarCounts,
            owner_login: StatsOwnerLogins, language: StatsLanguages,
            created_at: {1}, owner_id: {7}] :
        r.stargazers_count = OwnerStars[r.owner_login]}

StatsBatches == SeqsUpTo(StatsRepository, 1)

\* The records of the calls that upsert one repository again after its owner
\* and its creation time have changed at the source.
UpsertBatches ==
    SeqsUpTo([id: Ids, full_name: {"o/r"}, stargazers_count: {10},
              owner_login: OwnerLogins, language: Languages,
              created_at: {1, 2}, owner_id: {7, 8}], 1)

Ok(v) == [kind |-> "Ok", value |-> v]
Err(k) == [kind |-> k, value |-> 0]
NoResult == [kind |-> "None", value |-> 0]

(***************************************************************************)
(* Repository::validate                                                    *)
(***************************************************************************)
validate(repo) ==
    IF repo.full_name = "" THEN "full_name"
    ELSE IF repo.stargazers_count < 0 THEN "stargazers_count"
    ELSE IF repo.owner_login = "" THEN "owner.login"
    ELSE "ok"

(***************************************************************************)
(* u64. The checker's integers are narrower than 64 bits, so the model's    *)
(* unsigned words are WordBits wide: u64_MAX is the largest one, and a sum  *)
(* that passes it overflows as the code's sum does at 2^64.                 *)
(***************************************************************************)
u64_MAX == 2^WordBits - 1

(***************************************************************************)
(* RateLimitConfig. backoff_multiplier is an f64 in the code; the model     *)
(* holds twice its value, so 1 is 0.5, 2 is 1.0, 3 is 1.5 and 4 is 2.0.    *)
(***************************************************************************)
InitialBackoffs == {0, 10, 1000, 100000, u64_MAX}
MaxBackoffs == {100, 60000}
Multipliers == {1, 2, 3, 4}

RateLimitConfig ==
    [max_retries: 0..MaxRetries, initial_backoff_ms: InitialBackoffs,
     max_backoff_ms: MaxBackoffs, backoff_multiplier: Multipliers]

\* RateLimitConfig::default()
DefaultConfig ==
    [max_retries |-> 3, initial_backoff_ms |-> 1000,
     max_backoff_ms |-> 60000, backoff_multiplier |-> 4]

Queries == {"", "language:rust"}

\* The arguments per_page and page: Option<u32>.
PerPages == {None} \cup {Some(n) : n \in {0, 1, 30, 50, 100, 101, 150, 1000000}}
Pages == {None} \cup {Some(n) : n \in {0, 1, 5, 1000000}}

Statuses == {200, 201, 401, 403, 404, 422, 429, 500}

\* Response bodies. "search_response" is a JSON text that decodes into a
\* SearchResponse, "garbage" is not JSON, "" is the empty text (also what
\* text().await.unwrap_or_default() gives when the body cannot be read).
MessageOnly == "{\"message\":\"Validation Failed\"}"
ErrorsOnly == "{\"errors\":[{\"message\":\"Error 1\"},{\"message\":\"Error 2\"}]}"
MessageAndErrors == "{\"message\":\"Validation Failed\",\"errors\":[{\"message\":\"The search is longer than 256 characters.\",\"code\":\"invalid\"}]}"
ErrorsWithoutMessage == "{\"errors\":[{\"code\":\"invalid\"}]}"
ErrorsPartly == "{\"errors\":[{\"code\":\"invalid\"},{\"message\":\"Error 2\"}]}"
ErrorsEmpty == "{\"errors\":[]}"
MessageNotString == "{\"message\":422,\"errors\":[{\"message\":\"Error 1\"}]}"

Bodies ==
    {"search_response", "garbage", "", MessageOnly, ErrorsOnly, MessageAndErrors,
     ErrorsWithoutMessage, ErrorsPartly, ErrorsEmpty, MessageNotString}

\* Values of the x-ratelimit-reset header: absent, or its text.
ResetHeaders ==
    {None} \cup {Some(t) : t \in {"1700000000", "-1", "9223372036854775807", "soon", ""}}

\* What a server can answer. The body is read by the code on 200, 422 and
\* the catch-all statuses only, and the reset header on 403 and 429 only.
Responses ==
    {r \in [status : Statuses, body : Bodies, reset : ResetHeaders] :
        /\ r.status \in {200, 201} => r.body \in {"search_response", "garbage"}
        /\ r.status \in {401, 403, 429} => r.body = MessageOnly
        /\ r.status \notin {403, 429} => r.reset = Some("1700000000")}

\* Readings of the clock (chrono::Utc::now()), in seconds.
Clock == {"1800000000"}

NoRequest == [q |-> "", per_page |-> 0, page |-> 0]
NoResponse == [status |-> 0, body |-> "none"]

\* The fields of the AppError variants the search call returns.
NoFields == [none |-> TRUE]

invalid_query(q, reason) == [query |-> q, reason |-> reason]

rate_limit(reset_time) == [reset_time |-> reset_time]

authentication(reason) == [reason |-> reason]

github_api(message) == [message |-> message]

\* AppError::Http(#[from] reqwest::Error)
http_error == [source |-> "reqwest::Error"]

Min(a, b) == IF a <= b THEN a ELSE b

\* per_page.unwrap_or(30).clamp(1, 100)
PerPageUncapped(pp) == IF unwrap_or(pp, 30) < 1 THEN 1 ELSE unwrap_or(pp, 30)

PerPage(pp) ==
    IF unwrap_or(pp, 30) < 1 THEN 1
    ELSE IF unwrap_or(pp, 30) > 100 THEN 100
    ELSE unwrap_or(pp, 30)

\* page.unwrap_or(1).max(1)
Page(pg) == IF unwrap_or(pg, 1) >= 1 THEN unwrap_or(pg, 1) ELSE 1

\* The arms of match response.status().
ClassifyRetry401(status) ==
    IF status = 200 THEN "ok"
    ELSE IF status \in {401, 403, 429} THEN "rate_limited"
    ELSE IF status = 422 THEN "unprocessable"
    ELSE "other"

ClassifyRetryOther(status) ==
    IF status = 200 THEN "ok"
    ELSE IF status \in {403, 429} THEN "rate_limited"
    ELSE IF status = 401 THEN "unauthorized"
    ELSE IF status = 422 THEN "unprocessable"
    ELSE "rate_limited"

Classify(status) ==
    IF status = 200 THEN "ok"
    ELSE IF status \in {403, 429} THEN "rate_limited"
    ELSE IF status = 401 THEN "unauthorized"
    ELSE IF status = 422 THEN "unprocessable"
    ELSE "other"

\* response.json::<SearchResponse>() succeeds.
Decodes(body) == body = "search_response"

\* serde_json::from_str::<Value>(error_body), as far as extract_validation_error
\* looks into the value: message is the top-level "message" when it is a
\* string, errors is the top-level "errors" when it is an array, each of its
\* entries given by its "message" when that is a string.
NotJson == [is_json |-> FALSE, message |-> None, errors |-> None]

Json(m, e) == [is_json |-> TRUE, message |-> m, errors |-> e]

from_str(body) ==
    CASE body = "search_response" -> Json(None, None)
      [] body = MessageOnly -> Json(Some("Validation Failed"), None)
      [] body = ErrorsOnly -> Json(None, Some(<<Some("Error 1"), Some("Error 2")>>))
      [] body = MessageAndErrors ->
            Json(Some("Validation Failed"),
                 Some(<<Some("The search is longer than 256 characters.")>>))
      [] body = ErrorsWithoutMessage -> Json(None, Some(<<None>>))
      [] body = ErrorsPartly -> Json(None, Some(<<None, Some("Error 2")>>))
      [] body = ErrorsEmpty -> Json(None, Some(<<>>))
      [] body = MessageNotString -> Json(None, Some(<<Some("Error 1")>>))
      [] OTHER -> NotJson

\* errors.iter().filter_map(|e| e.get("message").and_then(|m| m.as_str()))
RECURSIVE filter_map(_)
filter_map(errors) ==
    IF errors = <<>> THEN <<>>
    ELSE IF Head(errors) = None THEN filter_map(Tail(errors))
    ELSE <<Head(errors)[1]>> \o filter_map(Tail(errors))

\* error_messages.join(", "). A text is the sequence of its pieces.
RECURSIVE join(_, _)
join(messages, sep) ==
    IF Len(messages) <= 1 THEN messages
    ELSE <<Head(messages), sep>> \o join(Tail(messages), sep)

\* GitHubClient::extract_validation_error
ExtractValidationErrorsFirst(error_body) ==
    LET error_json == from_str(error_body)
    IN  IF ~error_json.is_json THEN <<"Invalid query format">>
        ELSE IF error_json.errors # None /\ filter_map(error_json.errors[1]) # <<>>
        THEN join(filter_map(error_json.errors[1]), ", ")
        ELSE IF error_json.message # None THEN <<error_json.message[1]>>
        ELSE <<"Invalid query format">>

extract_validation_error(error_body) ==
    LET error_json == from_str(error_body)
    IN  IF ~error_json.is_json THEN <<"Invalid query format">>
        ELSE IF error_json.message # None THEN <<error_json.message[1]>>
        ELSE IF error_json.errors # None /\ filter_map(error_json.errors[1]) # <<>>
        THEN join(filter_map(error_json.errors[1]), ", ")
        ELSE <<"Invalid query format">>

\* reset_str.parse::<i64>() is Ok: the text is a decimal integer within i64.
ParsesAsI64 == {"1700000000", "-1", "9223372036854775807"}

\* chrono::DateTime::from_timestamp(reset_timestamp, 0) is Some: the second
\* lies within the years chrono represents (about 262,000 either side of 0).
InDateTimeRange == {"1700000000", "-1"}

\* reset_time.format("%Y-%m-%d %H:%M:%S UTC"): the text of a time, given by
\* the second it shows.
format(seconds) == <<"%Y-%m-%d %H:%M:%S of ", seconds, " UTC">>

\* GitHubClient::extract_rate_limit_reset
extract_rate_limit_reset(reset_header, now) ==
    IF reset_header # None /\ reset_header[1] \in ParsesAsI64
    THEN IF reset_header[1] \in InDateTimeRange
         THEN format(reset_header[1])
         ELSE format(now)
    ELSE <<"unknown">>

\* format!("HTTP {}: {}", status, error_body)
github_api_message(status, error_body) ==
    <<"HTTP ", ToString(status), ": ", error_body>>

\* if attempt >= config.max_retries
RetriesExhaustedOneLate(att, cfg) == att > cfg.max_retries

RetriesExhaustedOneEarly(att, cfg) == att + 1 >= cfg.max_retries

RetriesExhausted(att, cfg) == att >= cfg.max_retries

\* ((backoff_ms as f64 * config.backoff_multiplier) as u64).min(config.max_backoff_ms):
\* the cast truncates the product and saturates at u64::MAX.
NextBackoff(b, cfg) ==
    Min(Min((b * cfg.backoff_multiplier) \div 2, u64_MAX), cfg.max_backoff_ms)

\* fastrand::u64(0..=backoff_ms / 4): the least, a middle and the greatest draw.
Jitters(b) == {0, (b \div 4) \div 2, b \div 4}

\* backoff_ms + jitter where the build wraps an overflowing sum.
wrapping_add(a, b) == (a + b) % (u64_MAX + 1)

(***************************************************************************)
(* QueryMetadata and the table query_history.                              *)
(***************************************************************************)
MetadataIds == 1..MaxMetadata
Instants == 1..2

\* QueryMetadata::new: the pending shape.
new(id, search_query, t, now) ==
    [id |-> id, search_query |-> search_query, table_name |-> t, result_count |-> 0,
     executed_at |-> now, duration_ms |-> 0, success |-> FALSE, error_message |-> None]

\* QueryMetadata::mark_success
MarkSuccessWithoutCount(m, result_count, duration_ms) ==
    [m EXCEPT !.duration_ms = duration_ms, !.success = TRUE, !.error_message = None]

mark_success(m, result_count, duration_ms) ==
    [m EXCEPT !.result_count = result_count, !.duration_ms = duration_ms,
              !.success = TRUE, !.error_message = None]

\* QueryMetadata::mark_failure
MarkFailureWithoutMessage(m, error_message, duration_ms) ==
    [m EXCEPT !.duration_ms = duration_ms, !.success = FALSE]

mark_failure(m, error_message, duration_ms) ==
    [m EXCEPT !.duration_ms = duration_ms, !.success = FALSE,
              !.error_message = Some(error_message)]

\* The metadata values given to save_query_metadata: pending ones, and ones
\* marked once or twice.
Pending == {new(i, "language:rust", "repos_20240101000000", at) : i \in MetadataIds, at \in Instants}

Marked(M) ==
    {mark_success(m, n, 5) : m \in M, n \in {0, 2}}
        \cup {mark_failure(m, "rate limit exceeded", d) : m \in M, d \in {5, 9}}

Metadatas == Pending \cup Marked(Pending) \cup Marked(Marked(Pending))

\* The arguments limit of get_query_history: Option<i64>.
Limits == {None} \cup {Some(n) : n \in -1..(MaxMetadata + 1)}

\* The fields that ON CONFLICT (id) DO UPDATE SET assigns.
Mutable(m) ==
    [result_count |-> m.result_count, duration_ms |-> m.duration_ms,
     success |-> m.success, error_message |-> m.error_message]

NoMetadata == new(0, "", "", 0)

NoHistory == [kind |-> "None", value |-> <<>>]

\* INSERT INTO query_history ... ON CONFLICT (id) DO UPDATE SET result_count,
\* duration_ms, success, error_message: the row of a new id is the metadata;
\* the row of a present id keeps its other columns.
SaveRowsDoNothing(rows, m) ==
    IF \E r \in rows : r.id = m.id THEN rows ELSE rows \cup {m}

SaveRows(rows, m) ==
    IF \E r \in rows : r.id = m.id
    THEN {IF r.id = m.id
          THEN [r EXCEPT !.result_count = m.result_count, !.duration_ms = m.duration_ms,
                         !.success = m.success, !.error_message = m.error_message]
          ELSE r : r \in rows}
    ELSE rows \cup {m}

\* WHERE success = true, when success_only.
Where(rows, so) == {r \in rows : so => r.success}

\* ORDER BY executed_at DESC: the orders the store may return the rows in
\* (rows of equal executed_at come in any order).
OrderByAscending(rows) ==
    {s \in [1..Cardinality(rows) -> rows] :
        /\ \A i, j \in 1..Cardinality(rows) : i # j => s[i] # s[j]
        /\ \A i, j \in 1..Cardinality(rows) : i < j => s[i].executed_at <= s[j].executed_at}

OrderBy(rows) ==
    {s \in [1..Cardinality(rows) -> rows] :
        /\ \A i, j \in 1..Cardinality(rows) : i # j => s[i] # s[j]
        /\ \A i, j \in 1..Cardinality(rows) : i < j => s[i].executed_at >= s[j].executed_at}

\* LIMIT n
Limit(s, n) == SubSeq(s, 1, Min(n, Len(s)))

\* What fails before the table is created, if anything: GitHubClient::new or
\* DatabaseManager::new.
Starts == {"ok", "client", "database"}

\* The items of a search response: records with and without language, and a
\* record that Repository::validate rejects.
WorkflowRepository ==
    {r \in StatsRepository : r.language \in {None, Some("Rust")}}
        \cup {[id |-> 1, full_name |-> "", stargazers_count |-> 10,
               owner_login |-> "octocat", language |-> None,
               created_at |-> 1, owner_id |-> 7]}

Items == SeqsUpTo(WorkflowRepository, MaxBatch)

\* The errors search_repositories returns in the workflow.
SearchErrors ==
    {[kind |-> "RateLimit", error |-> rate_limit("unknown")],
     [kind |-> "Http", error |-> http_error]}

\* The values of search_result.
SearchResults ==
    {[kind |-> "Ok", items |-> i, error |-> NoFields] : i \in Items}
        \cup {[kind |-> e.kind, items |-> <<>>, error |-> e.error] : e \in SearchErrors}

NoSearch == [kind |-> "None", items |-> <<>>, error |-> NoFields]

\* search_duration.as_millis() as i64
Durations == {0, 2500}

\* The Display of AppError (thiserror), as a text in pieces.
to_string(kind, error) ==
    CASE kind = "GitHubApi" -> <<"GitHub API error: ", error.message>>
      [] kind = "RateLimit" -> <<"GitHub API rate limit exceeded: ", error.reset_time>>
      [] kind = "Authentication" -> <<"GitHub API authentication failed: ", error.reason>>
      [] kind = "InvalidQuery" ->
            <<"Invalid GitHub search query: ", error.query, " - ", error.reason>>
      [] kind = "Http" -> <<"HTTP request failed: ", error.source>>

\* Result<()> of the workflow.
Outcome(kind, error) == [kind |-> kind, error |-> error]

NoOutcome == Outcome("None", NoFields)

VARIABLES
    exists,           \* names of the tables present in the schema
    committed,        \* table name -> the committed rows of that table
    pc,               \* caller -> position inside insert_repositories
    table_name,       \* caller -> argument table_name
    repositories,     \* caller -> argument repositories
    idx,              \* caller -> index of the next record of the for loop
    inserted_count,   \* caller -> local inserted_count
    tx,               \* caller -> its transaction: open flag and uncommitted rows
    result,           \* caller -> value returned by the call
    statements,       \* caller -> number of SQL statements the call has issued
    applied,          \* table name -> rows obtained by applying committed batches whole
    committedIds,     \* table name -> ids of the records of committed batches
    rpc,              \* position of the reader inside get_table_stats
    rtable,           \* the reader's argument table_name
    rresult,          \* value returned to the reader
    rexpected,        \* the statistics of the whole batches committed when the reader queried
    spc,              \* position inside search_repositories_with_config
    query,            \* argument query
    per_page,         \* argument per_page
    page,             \* argument page
    config,           \* argument config
    attempt,          \* local attempt
    backoff_ms,       \* local backoff_ms
    delay,            \* duration of the sleep in progress
    sent,             \* the query parameters of the last request
    response,         \* the response of the last request
    reset_header,     \* the x-ratelimit-reset header of that response
    sresult,          \* value returned by the search call
    serror,           \* the fields of the AppError the search call returned
    requests,         \* number of HTTP requests the call has sent
    sleeps,           \* number of backoff sleeps the call has begun
    limited,          \* number of 403 and 429 responses the call has received
    backoffs,         \* the values backoff_ms has taken in the call, in order
    bases,            \* the values of backoff_ms the call's sleeps were computed from
    history,          \* the rows of table query_history
    lastSaved,        \* metadata id -> the metadata of the last executed save of that id
    hpc,              \* position of the caller of get_query_history
    limit,            \* argument limit of get_query_history
    success_only,     \* argument success_only of get_query_history
    hresult,          \* value returned by get_query_history
    wpc,              \* position inside execute_search_workflow
    executions,       \* number of executions of the workflow begun so far
    query_metadata,   \* local query_metadata
    search_result,    \* local search_result
    search_duration,  \* local search_duration, in milliseconds
    wresult,          \* value returned by the workflow
    wlog,             \* what the execution has done so far, in order
    tcall,            \* the last call of create_repository_table, drop_table or list_repository_tables
    tresult,          \* value returned by that call
    issued,           \* the SQL statements that call has sent, in order
    listed,           \* the names list_repository_tables returned
    utc_now,          \* the system clock, UTC
    generated         \* the names the last two calls of generate_table_name returned

callVars == <<pc, table_name, repositories, idx, inserted_count, tx, result, statements>>
storeVars == <<exists, committed, applied, committedIds>>
readerVars == <<rpc, rtable, rresult, rexpected>>
searchVars == <<spc, query, per_page, page, config, attempt, backoff_ms, delay, sent,
                response, reset_header, sresult, serror, requests, sleeps, limited,
                backoffs, bases>>
historyVars == <<history, lastSaved, hpc, limit, success_only, hresult>>

\* Every variable outside the search call, and every variable outside the
\* calls of insert_repositories and get_table_stats.
workflowVars == <<wpc, executions, query_metadata, search_result, search_duration,
                  wresult, wlog>>

tableVars == <<tcall, tresult, issued, listed>>
nameVars == <<utc_now, generated>>
mgmtVars == <<tableVars, nameVars>>

dbVars == <<callVars, storeVars, readerVars, historyVars, workflowVars, mgmtVars>>
restVars == <<searchVars, historyVars, workflowVars, mgmtVars>>

vars == <<callVars, storeVars, readerVars, searchVars, historyVars, workflowVars, mgmtVars>>

NoTx == [open |-> FALSE, writes |-> {}]

RowIds(rows) == {r.id : r \in rows}

\* The committed rows of c's table that c's transaction has not written.
Untouched(c) ==
    {r \in committed[table_name[c]] : r.id \notin RowIds(tx[c].writes)}

\* What the statements of c's transaction see: the committed rows, overlaid
\* with the transaction's own uncommitted rows.
TxView(c) == Untouched(c) \cup tx[c].writes

\* The row lock of github_id = id in table t is held by another open transaction.
LockedByOther(c, t, id) ==
    \E d \in Callers \ {c} :
        /\ tx[d].open
        /\ table_name[d] = t
        /\ id \in RowIds(tx[d].writes)

\* INSERT ... ON CONFLICT (github_id) DO UPDATE SET ... over a set of rows.
UpsertNoConflictClause(rows, repo) == rows \cup {repo}

UpsertDoNothing(rows, repo) ==
    IF \E r \in rows : r.id = repo.id THEN rows ELSE rows \cup {repo}

Upsert(rows, repo) ==
    {r \in rows : r.id # repo.id}
        \cup {IF \E r \in rows : r.id = repo.id
               THEN LET old == CHOOSE r \in rows : r.id = repo.id
                    IN  [repo EXCEPT !.created_at = old.created_at,
                                     !.owner_id = old.owner_id]
               ELSE repo}

\* PgQueryResult::rows_affected of that statement: the row inserted, or the
\* rows updated by the conflict clause.
RowsAffectedInsertsOnly(rows, repo) ==
    IF \E r \in rows : r.id = repo.id THEN 0 ELSE 1

rows_affected(rows, repo) ==
    IF \E r \in rows : r.id = repo.id
    THEN Cardinality({r \in rows : r.id = repo.id})
    ELSE 1

RECURSIVE ApplyBatch(_, _)
ApplyBatch(rows, batch) ==
    IF batch = <<>> THEN rows
    ELSE ApplyBatch(Upsert(rows, Head(batch)), Tail(batch))

BatchIds(batch) == {batch[i].id : i \in 1..Len(batch)}

Max(S) == CHOOSE x \in S : \A y \in S : y <= x

\* f64 values that are quotients of integers, as reduced fractions.
RECURSIVE gcd(_, _)
gcd(a, b) == IF b = 0 THEN a ELSE gcd(b, a % b)

f64(num, den) == [num |-> num \div gcd(num, den), den |-> den \div gcd(num, den)]

RECURSIVE SUM(_)
SUM(S) ==
    IF S = {} THEN 0
    ELSE LET r == CHOOSE r \in S : TRUE
         IN  r.stargazers_count + SUM(S \ {r})

\* AVG(stargazers_count): NULL over no rows.
AVG(rows) == IF rows = {} THEN None ELSE Some(f64(SUM(rows), Cardinality(rows)))

StatsErr(k) ==
    [kind |-> k, total_repositories |-> 0, unique_languages |-> 0,
     unique_owners |-> 0, avg_stars |-> f64(0, 1), max_stars |-> 0]

TableStatsCountLanguage(rows) ==
    IF rows = {}
    THEN StatsErr("Panic")
    ELSE [kind |-> "Ok",
          total_repositories |-> Cardinality({r \in rows : r.language # None}),
          unique_languages |-> Cardinality({r.language : r \in rows} \ {None}),
          unique_owners |-> Cardinality({r.owner_login : r \in rows}),
          avg_stars |-> unwrap_or(AVG(rows), f64(0, 1)),
          max_stars |-> Max({r.stargazers_count : r \in rows})]

TableStatsDistinctWithNull(rows) ==
    IF rows = {}
    THEN StatsErr("Panic")
    ELSE [kind |-> "Ok",
          total_repositories |-> Cardinality(rows),
          unique_languages |-> Cardinality({r.language : r \in rows}),
          unique_owners |-> Cardinality({r.owner_login : r \in rows}),
          avg_stars |-> unwrap_or(AVG(rows), f64(0, 1)),
          max_stars |-> Max({r.stargazers_count : r \in rows})]

\* The aggregate row of get_table_stats over a table's rows, decoded. MAX over
\* no rows is NULL, which row.get::<i64, _> cannot decode: the call panics.
\* COUNT(DISTINCT language) does not count the rows without language.
TableStats(rows) ==
    IF rows = {}
    THEN StatsErr("Panic")
    ELSE [kind |-> "Ok",
          total_repositories |-> Cardinality(rows),
          unique_languages |-> Cardinality({r.language : r \in rows} \ {None}),
          unique_owners |-> Cardinality({r.owner_login : r \in rows}),
          avg_stars |-> unwrap_or(AVG(rows), f64(0, 1)),
          max_stars |-> Max({r.stargazers_count : r \in rows})]

\* row.get::<Option<f64>, _>("avg_stars"): the average of a BIGINT column is a
\* NUMERIC, and whether f64 decodes a NUMERIC that is not NULL depends on the
\* sqlx the program is built with; where it does not, the call panics.
DecodeAvgStars(stats, compatible) ==
    IF stats.kind = "Ok" /\ ~compatible THEN StatsErr("Panic") ELSE stats

NoStats == StatsErr("None")

\* The clock when the program starts.
Epoch == [year |-> 2024, month |-> 1, day |-> 1, hour |-> 0, minute |-> 0, second |-> 0]

Init ==
    /\ exists = {"repos_20240101000000"}
    /\ committed = [t \in TableNames |-> {}]
    /\ pc = [c \in Callers |-> "idle"]
    /\ table_name = [c \in Callers |-> "repos_20240101000000"]
    /\ repositories = [c \in Callers |-> <<>>]
    /\ idx = [c \in Callers |-> 1]
    /\ inserted_count = [c \in Callers |-> 0]
    /\ tx = [c \in Callers |-> NoTx]
    /\ result = [c \in Callers |-> NoResult]
    /\ statements = [c \in Callers |-> 0]
    /\ applied = [t \in TableNames |-> {}]
    /\ committedIds = [t \in TableNames |-> {}]
    /\ rpc = "idle"
    /\ rtable = "repos_20240101000000"
    /\ rresult = NoStats
    /\ rexpected = NoStats
    /\ spc = "idle"
    /\ query = ""
    /\ per_page = None
    /\ page = None
    /\ config = DefaultConfig
    /\ attempt = 0
    /\ backoff_ms = 0
    /\ delay = 0
    /\ sent = NoRequest
    /\ response = NoResponse
    /\ reset_header = None
    /\ sresult = NoResult
    /\ serror = NoFields
    /\ requests = 0
    /\ sleeps = 0
    /\ limited = 0
    /\ backoffs = <<>>
    /\ bases = <<>>
    /\ history = {}
    /\ lastSaved = [i \in MetadataIds |-> NoMetadata]
    /\ hpc = "idle"
    /\ limit = None
    /\ success_only = FALSE
    /\ hresult = NoHistory
    /\ wpc = "idle"
    /\ executions = 0
    /\ query_metadata = NoMetadata
    /\ search_result = NoSearch
    /\ search_duration = 0
    /\ wresult = NoOutcome
    /\ wlog = <<>>
    /\ tcall = [op |-> "none", name |-> "", failed |-> FALSE]
    /\ tresult = NoResult
    /\ issued = <<>>
    /\ listed = <<>>
    /\ utc_now = Epoch
    /\ generated = <<>>

(***************************************************************************)
(* DatabaseManager::insert_repositories                                    *)
(***************************************************************************)

InsertCallBeginFirst(c, t, repos) ==
    /\ pc[c] = "idle"
    /\ table_name' = [table_name EXCEPT ![c] = t]
    /\ repositories' = [repositories EXCEPT ![c] = repos]
    /\ idx' = [idx EXCEPT ![c] = 1]
    /\ inserted_count' = [inserted_count EXCEPT ![c] = 0]
    /\ statements' = [statements EXCEPT ![c] = 1]
    /\ IF repos = <<>>
       THEN /\ result' = [result EXCEPT ![c] = Ok(0)]
            /\ pc' = [pc EXCEPT ![c] = "done"]
            /\ tx' = tx
       ELSE /\ result' = [result EXCEPT ![c] = NoResult]
            /\ pc' = [pc EXCEPT ![c] = "loop"]
            /\ tx' = [tx EXCEPT ![c] = [open |-> TRUE, writes |-> {}]]
    /\ UNCHANGED <<storeVars, readerVars, restVars>>

\* Entry: the empty-batch early return, else inserted_count = 0 and pool.begin().
InsertCall(c, t, repos) ==
    /\ pc[c] = "idle"
    /\ table_name' = [table_name EXCEPT ![c] = t]
    /\ repositories' = [repositories EXCEPT ![c] = repos]
    /\ idx' = [idx EXCEPT ![c] = 1]
    /\ inserted_count' = [inserted_count EXCEPT ![c] = 0]
    /\ IF repos = <<>>
       THEN /\ result' = [result EXCEPT ![c] = Ok(0)]
            /\ pc' = [pc EXCEPT ![c] = "done"]
            /\ UNCHANGED <<tx, statements>>
       ELSE /\ result' = [result EXCEPT ![c] = NoResult]
            /\ pc' = [pc EXCEPT ![c] = "loop"]
            /\ tx' = [tx EXCEPT ![c] = [open |-> TRUE, writes |-> {}]]
            /\ statements' = [statements EXCEPT ![c] = 1]
    /\ UNCHANGED <<storeVars, readerVars, restVars>>

\* The call returns Err(kind) out of the loop: tx is dropped, which rolls back.
FailWithCommit(c, kind) ==
    /\ result' = [result EXCEPT ![c] = Err(kind)]
    /\ committed' = [committed EXCEPT ![table_name[c]] = TxView(c)]
    /\ tx' = [tx EXCEPT ![c] = NoTx]
    /\ pc' = [pc EXCEPT ![c] = "done"]
    /\ UNCHANGED <<idx, inserted_count, exists, applied, committedIds>>

FailWithTxKept(c, kind) ==
    /\ result' = [result EXCEPT ![c] = Err(kind)]
    /\ pc' = [pc EXCEPT ![c] = "done"]
    /\ UNCHANGED <<tx, idx, inserted_count, storeVars>>

FailWith(c, kind) ==
    /\ result' = [result EXCEPT ![c] = Err(kind)]
    /\ tx' = [tx EXCEPT ![c] = NoTx]
    /\ pc' = [pc EXCEPT ![c] = "done"]
    /\ UNCHANGED <<idx, inserted_count, storeVars>>

InsertRecordOnPool(c) ==
    /\ pc[c] = "loop"
    /\ idx[c] <= Len(repositories[c])
    /\ LET repo == repositories[c][idx[c]]
           t == table_name[c]
       IN  IF validate(repo) # "ok"
           THEN FailWith(c, "Validation") /\ UNCHANGED statements
           ELSE IF t \notin exists
           THEN /\ FailWith(c, "Database")
                /\ statements' = [statements EXCEPT ![c] = @ + 1]
           ELSE /\ ~LockedByOther(c, t, repo.id)
                /\ committed' = [committed EXCEPT ![t] = Upsert(@, repo)]
                /\ inserted_count' =
                       [inserted_count EXCEPT ![c] = @ + rows_affected(committed[t], repo)]
                /\ idx' = [idx EXCEPT ![c] = @ + 1]
                /\ statements' = [statements EXCEPT ![c] = @ + 1]
                /\ UNCHANGED <<result, pc, tx, exists, applied, committedIds>>
    /\ UNCHANGED <<table_name, repositories, readerVars, restVars>>

\* One iteration of the for loop: validate, then execute the upsert on tx.
\* The statement waits while another transaction holds the row's lock.
InsertRecord(c) ==
    /\ pc[c] = "loop"
    /\ idx[c] <= Len(repositories[c])
    /\ LET repo == repositories[c][idx[c]]
           t == table_name[c]
       IN  IF validate(repo) # "ok"
           THEN FailWith(c, "Validation") /\ UNCHANGED statements
           ELSE IF t \notin exists
           THEN /\ FailWith(c, "Database")
                /\ statements' = [statements EXCEPT ![c] = @ + 1]
           ELSE /\ ~LockedByOther(c, t, repo.id)
                /\ tx' = [tx EXCEPT ![c].writes =
                           Upsert(TxView(c), repo) \ {r \in Untouched(c) : r.id # repo.id}]
                /\ inserted_count' =
                       [inserted_count EXCEPT ![c] = @ + rows_affected(TxView(c), repo)]
                /\ idx' = [idx EXCEPT ![c] = @ + 1]
                /\ statements' = [statements EXCEPT ![c] = @ + 1]
                /\ UNCHANGED <<result, pc, storeVars>>
    /\ UNCHANGED <<table_name, repositories, readerVars, restVars>>

\* c's statement waits for a row lock held by d.
WaitsForAnyWriter(c, d) ==
    /\ pc[c] = "loop"
    /\ idx[c] <= Len(repositories[c])
    /\ validate(repositories[c][idx[c]]) = "ok"
    /\ table_name[c] \in exists
    /\ d # c
    /\ tx[d].open
    /\ table_name[d] = table_name[c]

WaitsFor(c, d) ==
    /\ pc[c] = "loop"
    /\ idx[c] <= Len(repositories[c])
    /\ validate(repositories[c][idx[c]]) = "ok"
    /\ table_name[c] \in exists
    /\ d # c
    /\ tx[d].open
    /\ table_name[d] = table_name[c]
    /\ repositories[c][idx[c]].id \in RowIds(tx[d].writes)

\* Two transactions wait for each other's row locks: the store's deadlock
\* detector fails the statement of one of them, and `?` returns that error.
InsertDeadlock(c) ==
    /\ \E d \in Callers : WaitsFor(c, d) /\ WaitsFor(d, c)
    /\ FailWith(c, "Database")
    /\ statements' = [statements EXCEPT ![c] = @ + 1]
    /\ UNCHANGED <<table_name, repositories, readerVars, restVars>>

\* tx.commit() after the loop, then Ok(inserted_count).
InsertCommit(c) ==
    /\ pc[c] = "loop"
    /\ idx[c] > Len(repositories[c])
    /\ committed' = [committed EXCEPT ![table_name[c]] = TxView(c)]
    /\ applied' = [applied EXCEPT ![table_name[c]] = ApplyBatch(@, repositories[c])]
    /\ committedIds' = [committedIds EXCEPT ![table_name[c]] = @ \cup BatchIds(repositories[c])]
    /\ tx' = [tx EXCEPT ![c] = NoTx]
    /\ result' = [result EXCEPT ![c] = Ok(inserted_count[c])]
    /\ statements' = [statements EXCEPT ![c] = @ + 1]
    /\ pc' = [pc EXCEPT ![c] = "done"]
    /\ UNCHANGED <<exists, table_name, repositories, idx, inserted_count, readerVars, restVars>>

\* The caller has its result; its locals go out of scope and it may call again.
InsertReturn(c) ==
    /\ pc[c] = "done"
    /\ pc' = [pc EXCEPT ![c] = "idle"]
    /\ table_name' = [table_name EXCEPT ![c] = "repos_20240101000000"]
    /\ repositories' = [repositories EXCEPT ![c] = <<>>]
    /\ idx' = [idx EXCEPT ![c] = 1]
    /\ inserted_count' = [inserted_count EXCEPT ![c] = 0]
    /\ result' = [result EXCEPT ![c] = NoResult]
    /\ statements' = [statements EXCEPT ![c] = 0]
    /\ UNCHANGED <<tx, storeVars, readerVars, restVars>>

(***************************************************************************)
(* Table names: the characters of a &str, and what the store makes of a     *)
(* name written into SQL text without quotes.                               *)
(***************************************************************************)

\* The characters of the names, in the order of their code points.
CodePoints == " -0123456789;ABCDEFGHIJKLMNOPQRSTUVWXYZ_abcdefghijklmnopqrstuvwxyz"

char(str, i) == SubSeq(str, i, i)

CodeOf ==
    [ch \in {char(CodePoints, i) : i \in 1..Len(CodePoints)} |->
        CHOOSE i \in 1..Len(CodePoints) : char(CodePoints, i) = ch]

\* char::is_alphanumeric, on the characters above.
is_alphanumeric(ch) ==
    \/ CodeOf["0"] <= CodeOf[ch] /\ CodeOf[ch] <= CodeOf["9"]
    \/ CodeOf["A"] <= CodeOf[ch] /\ CodeOf[ch] <= CodeOf["Z"]
    \/ CodeOf["a"] <= CodeOf[ch] /\ CodeOf[ch] <= CodeOf["z"]

\* The names the arguments of the table operations are drawn from.
AnyNames ==
    {"repos_20240101000000", "repos_20240101000001", "repos_A1", "reposx1",
     "no_prefix", "", "evil; DROP TABLE x", "repos_; DROP TABLE users; --"}

\* The store folds the letters of an unquoted identifier to lower case.
RECURSIVE Fold(_)
Fold(str) ==
    IF str = "" THEN ""
    ELSE LET ch == char(str, 1)
         IN  (IF CodeOf["A"] <= CodeOf[ch] /\ CodeOf[ch] <= CodeOf["Z"]
              THEN char(CodePoints, CodeOf[ch] + (CodeOf["a"] - CodeOf["A"]))
              ELSE ch) \o Fold(SubSeq(str, 2, Len(str)))

\* The table an unquoted name denotes where a statement expects one table
\* name: a letter or an underscore, then letters, digits and underscores,
\* folded to lower case. Any other text leaves a statement that the store
\* refuses as a whole: a syntax error, or more than one command in a
\* prepared statement.
Identifier(str) ==
    IF /\ str # ""
       /\ ~(CodeOf["0"] <= CodeOf[char(str, 1)] /\ CodeOf[char(str, 1)] <= CodeOf["9"])
       /\ \A i \in 1..Len(str) : is_alphanumeric(char(str, i)) \/ char(str, i) = "_"
    THEN Some(Fold(str))
    ELSE None

\* String's Ord, and ORDER BY on names of these characters: the first
\* differing character decides, and a proper prefix comes first.
RECURSIVE Less(_, _)
Less(a, b) ==
    IF b = "" THEN FALSE
    ELSE IF a = "" THEN TRUE
    ELSE IF char(a, 1) # char(b, 1) THEN CodeOf[char(a, 1)] < CodeOf[char(b, 1)]
    ELSE Less(SubSeq(a, 2, Len(a)), SubSeq(b, 2, Len(b)))

\* One SQL statement built with format!: its command and the name put into it.
Sql(command, name) == [command |-> command, name |-> name]

\* The rows of table t in f; the tables outside f's domain hold no rows.
Rows(f, t) == IF t \in DOMAIN f THEN f[t] ELSE {}

\* f without the rows of table t.
Dropped(f, t) == [u \in DOMAIN f |-> IF u = t THEN {} ELSE f[u]]

(***************************************************************************)
(* DatabaseManager::create_repository_table                                *)
(***************************************************************************)

\* The statement that fails, if one does: CREATE TABLE IF NOT EXISTS, or one
\* of the CREATE INDEX IF NOT EXISTS that follow it.
CreateFailures == {"none", "table", "index"}

\* The table is there once CREATE TABLE has run; no statement touches rows.
\* The statement does not run when its text is not one command on one table.
CreateApplied(t, failed) ==
    exists' = IF failed = "table" \/ Identifier(t) = None
              THEN exists
              ELSE exists \cup {Identifier(t)[1]}

CreateOrReplaceTable(t, failed) ==
    /\ CreateApplied(t, failed)
    /\ tcall' = [op |-> "create_repository_table", name |-> t, failed |-> failed # "none"]
    /\ tresult' = IF failed # "none" \/ Identifier(t) = None
                  THEN Err("TableCreation")
                  ELSE Ok(0)
    /\ issued' = IF failed = "table" \/ Identifier(t) = None
                 THEN <<Sql("CREATE TABLE IF NOT EXISTS", t)>>
                 ELSE <<Sql("CREATE TABLE IF NOT EXISTS", t)>> \o [i \in 1..6 |-> Sql("CREATE INDEX IF NOT EXISTS", t)]
    /\ listed' = <<>>
    /\ committed' = IF failed = "table" \/ Identifier(t) = None
                    THEN committed
                    ELSE Dropped(committed, Identifier(t)[1])
    /\ UNCHANGED <<applied, committedIds, callVars, readerVars, nameVars,
                   searchVars, historyVars, workflowVars>>

create_repository_table(t, failed) ==
    /\ CreateApplied(t, failed)
    /\ tcall' = [op |-> "create_repository_table", name |-> t, failed |-> failed # "none"]
    /\ tresult' = IF failed # "none" \/ Identifier(t) = None
                  THEN Err("TableCreation")
                  ELSE Ok(0)
    /\ issued' = IF failed = "table" \/ Identifier(t) = None
                 THEN <<Sql("CREATE TABLE IF NOT EXISTS", t)>>
                 ELSE <<Sql("CREATE TABLE IF NOT EXISTS", t)>> \o [i \in 1..6 |-> Sql("CREATE INDEX IF NOT EXISTS", t)]
    /\ listed' = <<>>
    /\ UNCHANGED <<committed, applied, committedIds, callVars, readerVars, nameVars,
                   searchVars, historyVars, workflowVars>>

(***************************************************************************)
(* DatabaseManager::drop_table                                             *)
(***************************************************************************)

\* The check of the name before the statement is built.
ValidTableNamePrefixOnly(name) ==
    Len(name) >= 6 /\ SubSeq(name, 1, 6) = "repos_"

ValidTableName(name) ==
    /\ Len(name) >= 6 /\ SubSeq(name, 1, 6) = "repos_"
    /\ \A i \in 1..Len(name) : is_alphanumeric(char(name, i)) \/ char(name, i) = "_"

\* A name that passes the check is one identifier; DROP TABLE IF EXISTS
\* removes the table it denotes with its rows, or does nothing.
drop_table(name, failed) ==
    /\ tcall' = [op |-> "drop_table", name |-> name, failed |-> failed]
    /\ listed' = <<>>
    /\ IF ~ValidTableName(name)
       THEN /\ tresult' = Err("Validation")
            /\ issued' = <<>>
            /\ UNCHANGED storeVars
       ELSE /\ issued' = <<Sql("DROP TABLE IF EXISTS", name)>>
            /\ IF failed
               THEN /\ tresult' = Err("Database")
                    /\ UNCHANGED storeVars
               ELSE /\ tresult' = Ok(0)
                    /\ exists' = exists \ {Fold(name)}
                    /\ committed' = Dropped(committed, Fold(name))
                    /\ applied' = Dropped(applied, Fold(name))
                    /\ committedIds' = Dropped(committedIds, Fold(name))
    /\ UNCHANGED <<callVars, readerVars, nameVars, searchVars, historyVars, workflowVars>>

(***************************************************************************)
(* DatabaseManager::list_repository_tables                                 *)
(***************************************************************************)

\* ORDER BY table_name DESC.
RECURSIVE OrderByTableNameDesc(_)
OrderByTableNameDesc(names) ==
    IF names = {} THEN <<>>
    ELSE LET top == CHOOSE n \in names : \A m \in names : ~Less(n, m)
         IN  <<top>> \o OrderByTableNameDesc(names \ {top})

\* table_name LIKE 'repos_%': in a LIKE pattern an underscore stands for any
\* one character and a percent sign for any string.
list_repository_tables(failed) ==
    /\ tcall' = [op |-> "list_repository_tables", name |-> "", failed |-> failed]
    /\ issued' = <<Sql("SELECT table_name", "")>>
    /\ IF failed
       THEN tresult' = Err("Database") /\ listed' = <<>>
       ELSE /\ tresult' = Ok(0)
            /\ listed' = OrderByTableNameDesc({t \in exists :
                                                Len(t) >= 6 /\ SubSeq(t, 1, 5) = "repos"})
    /\ UNCHANGED <<storeVars, callVars, readerVars, nameVars, searchVars, historyVars,
                   workflowVars>>

(***************************************************************************)
(* DatabaseManager::generate_table_name                                    *)
(***************************************************************************)

\* DateTime<Utc>, as its calendar fields: the instants that differ from the
\* first one in at most two fields, each at an end of its range, in years of
\* four digits.
DateTimes ==
    {at \in [year: {2024, 9999}, month: {1, 12}, day: {1, 31}, hour: {0, 23},
             minute: {0, 59}, second: {0, 59}] :
        Cardinality({f \in {"year", "month", "day", "hour", "minute", "second"} :
                        at[f] # Epoch[f]}) <= 2}

\* The decimal digits of n.
RECURSIVE Decimal(_)
Decimal(n) ==
    IF n < 10 THEN char("0123456789", n + 1)
    ELSE Decimal(n \div 10) \o char("0123456789", (n % 10) + 1)

\* A number written with zeros in front up to width w, as %Y does up to four
\* digits and %m %d %H %M %S up to two.
RECURSIVE ZeroPadded(_, _)
ZeroPadded(digits, w) ==
    IF Len(digits) >= w THEN digits ELSE ZeroPadded("0" \o digits, w)

\* now.format("%Y%m%d%H%M%S") behind the prefix.
TableNameUnpadded(now) ==
    "repos_" \o Decimal(now.year) \o Decimal(now.month) \o Decimal(now.day)
             \o Decimal(now.hour) \o Decimal(now.minute) \o Decimal(now.second)

TableNameOf(now) ==
    "repos_" \o ZeroPadded(Decimal(now.year), 4) \o ZeroPadded(Decimal(now.month), 2)
             \o ZeroPadded(Decimal(now.day), 2) \o ZeroPadded(Decimal(now.hour), 2)
             \o ZeroPadded(Decimal(now.minute), 2) \o ZeroPadded(Decimal(now.second), 2)

\* The clock moves on, never back.
ClockAdvance(at) ==
    /\ LET a == <<utc_now.year, utc_now.month, utc_now.day,
                  utc_now.hour, utc_now.minute, utc_now.second>>
           b == <<at.year, at.month, at.day, at.hour, at.minute, at.second>>
       IN  \E i \in 1..6 :
              /\ \A j \in 1..(i - 1) : a[j] = b[j]
              /\ a[i] < b[i]
    /\ utc_now' = at
    /\ UNCHANGED <<generated, tableVars, callVars, storeVars, readerVars, searchVars,
                   historyVars, workflowVars>>

\* Utc::now() and the formatted name; the last two calls are kept.
generate_table_name ==
    /\ generated' = (IF Len(generated) < 2 THEN generated ELSE Tail(generated))
                        \o <<[at |-> utc_now, name |-> TableNameOf(utc_now)]>>
    /\ UNCHANGED <<utc_now, tableVars, callVars, storeVars, readerVars, searchVars,
                   historyVars, workflowVars>>

(***************************************************************************)
(* DatabaseManager::get_table_stats                                        *)
(***************************************************************************)

\* The existence query; an absent table returns Database(RowNotFound).
StatsCall(t) ==
    /\ rpc = "idle"
    /\ rtable' = t
    /\ IF t \in exists
       THEN rpc' = "query" /\ rresult' = NoStats /\ rexpected' = NoStats
       ELSE rpc' = "done" /\ rresult' = StatsErr("Database")
                          /\ rexpected' = StatsErr("Database")
    /\ UNCHANGED <<callVars, storeVars, restVars>>

\* The aggregate query: one statement, which reads the committed rows.
StatsQuery ==
    /\ rpc = "query"
    /\ \E compatible \in BOOLEAN :
          /\ rresult' = IF rtable \in exists
                        THEN DecodeAvgStars(TableStats(Rows(committed, rtable)), compatible)
                        ELSE StatsErr("Database")
          /\ rexpected' = IF rtable \in exists
                          THEN DecodeAvgStars(TableStats(Rows(applied, rtable)), compatible)
                          ELSE StatsErr("Database")
    /\ rpc' = "done"
    /\ UNCHANGED <<rtable, callVars, storeVars, restVars>>

StatsReturn ==
    /\ rpc = "done"
    /\ rpc' = "idle"
    /\ rtable' = "repos_20240101000000"
    /\ rresult' = NoStats
    /\ rexpected' = NoStats
    /\ UNCHANGED <<callVars, storeVars, restVars>>


(***************************************************************************)
(* GitHubClient::search_repositories_with_config                           *)
(***************************************************************************)

SearchDone(r, e) ==
    /\ sresult' = r
    /\ serror' = e
    /\ spc' = "done"
    /\ UNCHANGED <<attempt, backoff_ms, delay, sleeps, backoffs, bases>>

\* Entry: the empty-query early return, else attempt = 0 and
\* backoff_ms = config.initial_backoff_ms. The locals per_page and page that
\* shadow the arguments are PerPage(per_page) and Page(page).
SearchCallNoEmptyCheck(q, pp, pg, cfg) ==
    /\ spc = "idle"
    /\ query' = q
    /\ per_page' = pp
    /\ page' = pg
    /\ config' = cfg
    /\ requests' = 0
    /\ sleeps' = 0
    /\ limited' = 0
    /\ delay' = 0
    /\ bases' = <<>>
    /\ sent' = NoRequest
    /\ response' = NoResponse
    /\ reset_header' = None
    /\ sresult' = NoResult
    /\ serror' = NoFields
    /\ spc' = "send"
    /\ attempt' = 0
    /\ backoff_ms' = cfg.initial_backoff_ms
    /\ backoffs' = <<cfg.initial_backoff_ms>>
    /\ UNCHANGED dbVars

SearchCall(q, pp, pg, cfg) ==
    /\ spc = "idle"
    /\ query' = q
    /\ per_page' = pp
    /\ page' = pg
    /\ config' = cfg
    /\ requests' = 0
    /\ sleeps' = 0
    /\ limited' = 0
    /\ delay' = 0
    /\ bases' = <<>>
    /\ sent' = NoRequest
    /\ response' = NoResponse
    /\ reset_header' = None
    /\ IF q = ""
       THEN /\ sresult' = Err("InvalidQuery")
            /\ serror' = invalid_query(q, <<"Query cannot be empty">>)
            /\ spc' = "done"
            /\ UNCHANGED <<attempt, backoff_ms, backoffs>>
       ELSE /\ sresult' = NoResult
            /\ serror' = NoFields
            /\ spc' = "send"
            /\ attempt' = 0
            /\ backoff_ms' = cfg.initial_backoff_ms
            /\ backoffs' = <<cfg.initial_backoff_ms>>
    /\ UNCHANGED dbVars

\* GitHubClient::search_repositories
search_repositories(q, pp, pg) == SearchCall(q, pp, pg, DefaultConfig)

\* send().await? fails: the transport error is returned.
SearchTransportErrorRetried ==
    /\ spc = "send"
    /\ requests' = requests + 1
    /\ sent' = [q |-> query, per_page |-> PerPage(per_page), page |-> Page(page)]
    /\ response' = NoResponse
    /\ reset_header' = None
    /\ IF RetriesExhausted(attempt, config)
       THEN SearchDone(Err("Http"), http_error)
       ELSE /\ delay' = backoff_ms
            /\ spc' = "sleep"
            /\ sleeps' = sleeps + 1
            /\ bases' = Append(bases, backoff_ms)
            /\ UNCHANGED <<attempt, backoff_ms, backoffs, sresult, serror>>
    /\ UNCHANGED <<query, per_page, page, config, limited, dbVars>>

SearchTransportError ==
    /\ spc = "send"
    /\ requests' = requests + 1
    /\ sent' = [q |-> query, per_page |-> PerPage(per_page), page |-> Page(page)]
    /\ response' = NoResponse
    /\ reset_header' = None
    /\ SearchDone(Err("Http"), http_error)
    /\ UNCHANGED <<query, per_page, page, config, limited, dbVars>>

\* send() returns a response, and the match on its status runs. now is the
\* reading of the clock, should the arm take one. The sum backoff_ms + jitter
\* of an overflowing pair panics in a build with overflow checks and wraps in
\* a build without them.
SearchResponse(status, body, reset, now) ==
    /\ spc = "send"
    /\ requests' = requests + 1
    /\ sent' = [q |-> query, per_page |-> PerPage(per_page), page |-> Page(page)]
    /\ response' = [status |-> status, body |-> body]
    /\ reset_header' = reset
    /\ limited' = IF status \in {403, 429} THEN limited + 1 ELSE limited
    /\ IF Classify(status) = "ok"
       THEN IF Decodes(body)
            THEN SearchDone(Ok(body), NoFields)
            ELSE SearchDone(Err("Http"), http_error)
       ELSE IF Classify(status) = "rate_limited"
       THEN IF RetriesExhausted(attempt, config)
            THEN SearchDone(Err("RateLimit"),
                            rate_limit(extract_rate_limit_reset(reset, now)))
            ELSE \E jitter \in Jitters(backoff_ms) :
                    \/ /\ delay' = wrapping_add(backoff_ms, jitter)
                       /\ spc' = "sleep"
                       /\ sleeps' = sleeps + 1
                       /\ bases' = Append(bases, backoff_ms)
                       /\ UNCHANGED <<attempt, backoff_ms, backoffs, sresult, serror>>
                    \/ /\ backoff_ms + jitter > u64_MAX
                       /\ SearchDone(Err("Panic"), NoFields)
       ELSE IF Classify(status) = "unauthorized"
       THEN SearchDone(Err("Authentication"),
                       authentication(<<"Invalid or expired GitHub token">>))
       ELSE IF Classify(status) = "unprocessable"
       THEN SearchDone(Err("InvalidQuery"),
                       invalid_query(query, extract_validation_error(body)))
       ELSE SearchDone(Err("GitHubApi"), github_api(github_api_message(status, body)))
    /\ UNCHANGED <<query, per_page, page, config, dbVars>>

\* The sleep ends: backoff_ms is multiplied and capped, attempt += 1, and the
\* loop sends again.
SearchWake ==
    /\ spc = "sleep"
    /\ backoff_ms' = NextBackoff(backoff_ms, config)
    /\ backoffs' = Append(backoffs, NextBackoff(backoff_ms, config))
    /\ attempt' = attempt + 1
    /\ delay' = 0
    /\ spc' = "send"
    /\ UNCHANGED <<query, per_page, page, config, sent, response, reset_header, sresult,
                   serror, requests, sleeps, limited, bases, dbVars>>

\* The caller has its result; the call's locals go out of scope.
SearchReturn ==
    /\ spc = "done"
    /\ spc' = "idle"
    /\ query' = ""
    /\ per_page' = None
    /\ page' = None
    /\ config' = DefaultConfig
    /\ attempt' = 0
    /\ backoff_ms' = 0
    /\ delay' = 0
    /\ sent' = NoRequest
    /\ response' = NoResponse
    /\ reset_header' = None
    /\ sresult' = NoResult
    /\ serror' = NoFields
    /\ requests' = 0
    /\ sleeps' = 0
    /\ limited' = 0
    /\ backoffs' = <<>>
    /\ bases' = <<>>
    /\ UNCHANGED dbVars

(***************************************************************************)
(* DatabaseManager::save_query_metadata and get_query_history              *)
(***************************************************************************)

\* One INSERT ... ON CONFLICT statement on the pool; ok is whether the store
\* executes it (a failed statement changes nothing).
SaveApplied(m, ok) ==
    /\ history' = IF ok THEN SaveRows(history, m) ELSE history
    /\ lastSaved' = IF ok THEN [lastSaved EXCEPT ![m.id] = m] ELSE lastSaved

save_query_metadata(m, ok) ==
    /\ hpc = "idle"
    /\ SaveApplied(m, ok)
    /\ UNCHANGED <<hpc, limit, success_only, hresult, callVars, storeVars, readerVars, mgmtVars, searchVars, workflowVars>>

\* One SELECT on the pool. A negative LIMIT is an error of the store.
get_query_history(l, so) ==
    /\ hpc = "idle"
    /\ limit' = l
    /\ success_only' = so
    /\ hpc' = "done"
    /\ IF l # None /\ l[1] < 0
       THEN hresult' = [kind |-> "Database", value |-> <<>>]
       ELSE \E s \in OrderBy(Where(history, so)) :
               hresult' = [kind |-> "Ok",
                           value |-> IF l = None THEN s ELSE Limit(s, l[1])]
    /\ UNCHANGED <<history, lastSaved, callVars, storeVars, readerVars, mgmtVars, searchVars, workflowVars>>

HistoryReturn ==
    /\ hpc = "done"
    /\ hpc' = "idle"
    /\ limit' = None
    /\ success_only' = FALSE
    /\ hresult' = NoHistory
    /\ UNCHANGED <<history, lastSaved, callVars, storeVars, readerVars, mgmtVars, searchVars, workflowVars>>

(***************************************************************************)
(* execute_search_workflow                                                 *)
(***************************************************************************)

\* The clients are made, the table name is generated and the metadata is
\* created, with a uuid no earlier execution had.
WorkflowCall(q, now, t, started) ==
    /\ wpc = "idle"
    /\ executions < MaxMetadata
    /\ executions' = executions + 1
    /\ search_result' = NoSearch
    /\ search_duration' = 0
    /\ wlog' = <<>>
    /\ IF started = "ok"
       THEN /\ query_metadata' = new(executions + 1, q, t, now)
            /\ wpc' = "create"
            /\ wresult' = NoOutcome
       ELSE /\ query_metadata' = NoMetadata
            /\ wpc' = "done"
            /\ wresult' = IF started = "client"
                          THEN Outcome("Authentication",
                                       authentication("GitHub token cannot be empty"))
                          ELSE Outcome("Database", NoFields)
    /\ UNCHANGED <<callVars, storeVars, readerVars, mgmtVars, searchVars, historyVars>>

\* db_manager.create_repository_table(&table_name).await?
WorkflowCreateTable(failed) ==
    /\ wpc = "create"
    /\ CreateApplied(query_metadata.table_name, failed)
    /\ wlog' = IF committed[query_metadata.table_name] = {}
               THEN Append(wlog, "fresh table") ELSE wlog
    /\ IF failed = "none"
       THEN wpc' = "search" /\ UNCHANGED wresult
       ELSE wpc' = "done" /\ wresult' = Outcome("TableCreation", NoFields)
    /\ UNCHANGED <<executions, query_metadata, search_result, search_duration,
                   committed, applied, committedIds, callVars, readerVars, mgmtVars, searchVars,
                   historyVars>>

\* The search returns r after d milliseconds. An error is marked on the
\* metadata, and so is the success of a search without items.
WorkflowSearch(r, d) ==
    /\ wpc = "search"
    /\ search_result' = r
    /\ search_duration' = d
    /\ IF r.kind = "Ok"
       THEN IF r.items # <<>>
            THEN /\ wpc' = "store"
                 /\ wlog' = Append(wlog, "search")
                 /\ UNCHANGED query_metadata
            ELSE /\ query_metadata' = mark_success(query_metadata, 0, d)
                 /\ wpc' = "save"
                 /\ wlog' = wlog \o <<"search", "mark_success">>
       ELSE /\ query_metadata' = mark_failure(query_metadata, to_string(r.kind, r.error), d)
            /\ wpc' = "save"
            /\ wlog' = wlog \o <<"search", "mark_failure">>
    /\ UNCHANGED <<executions, wresult, callVars, storeVars, readerVars, mgmtVars, searchVars,
                   historyVars>>

\* db_manager.insert_repositories(&table_name, &search_response.items)
WorkflowStore ==
    /\ wpc = "store"
    /\ InsertCall("c1", query_metadata.table_name, search_result.items)

\* insert_repositories(...).await? and, when it succeeded, mark_success.
WorkflowStored ==
    /\ wpc = "store"
    /\ pc["c1"] = "done"
    /\ IF result["c1"].kind = "Ok"
       THEN /\ query_metadata' = mark_success(query_metadata, Len(search_result.items),
                                              search_duration)
            /\ wpc' = "save"
            /\ wlog' = Append(wlog, "mark_success")
            /\ UNCHANGED wresult
       ELSE /\ wpc' = "done"
            /\ wresult' = Outcome(result["c1"].kind, NoFields)
            /\ UNCHANGED <<query_metadata, wlog>>
    /\ UNCHANGED <<executions, search_result, search_duration, callVars, storeVars,
                   readerVars, mgmtVars, searchVars, historyVars>>

\* The call of insert_repositories is over.
WorkflowStoreReturn ==
    /\ wpc # "store"
    /\ InsertReturn("c1")

\* db_manager.save_query_metadata(&query_metadata): in the Err arm its failure
\* is a warning and the search error is returned; after the match its failure
\* is returned.
WorkflowSaveReturnsSaveError(ok) ==
    /\ wpc = "save"
    /\ pc["c1"] = "idle"
    /\ SaveApplied(query_metadata, ok)
    /\ wlog' = wlog \o (IF ok THEN <<"save">> ELSE <<"save failed">>)
    /\ wresult' = IF ~ok THEN Outcome("Database", NoFields)
                  ELSE IF search_result.kind = "Ok" THEN Outcome("Ok", NoFields)
                  ELSE Outcome(search_result.kind, search_result.error)
    /\ wpc' = "done"
    /\ UNCHANGED <<executions, query_metadata, search_result, search_duration,
                   hpc, limit, success_only, hresult,
                   callVars, storeVars, readerVars, mgmtVars, searchVars>>

WorkflowSave(ok) ==
    /\ wpc = "save"
    /\ pc["c1"] = "idle"
    /\ SaveApplied(query_metadata, ok)
    /\ wlog' = wlog \o (IF ok THEN <<"save">>
                         ELSE IF search_result.kind = "Ok" THEN <<"save failed">>
                         ELSE <<"save failed", "warning">>)
    /\ wresult' = IF search_result.kind # "Ok"
                  THEN Outcome(search_result.kind, search_result.error)
                  ELSE IF ok THEN Outcome("Ok", NoFields)
                  ELSE Outcome("Database", NoFields)
    /\ wpc' = "done"
    /\ UNCHANGED <<executions, query_metadata, search_result, search_duration,
                   hpc, limit, success_only, hresult,
                   callVars, storeVars, readerVars, mgmtVars, searchVars>>

WorkflowReturn ==
    /\ wpc = "done"
    /\ pc["c1"] = "idle"
    /\ rpc = "idle"
    /\ hpc = "idle"
    /\ wpc' = "idle"
    /\ query_metadata' = NoMetadata
    /\ search_result' = NoSearch
    /\ search_duration' = 0
    /\ wresult' = NoOutcome
    /\ wlog' = <<>>
    /\ UNCHANGED <<executions, callVars, storeVars, readerVars, mgmtVars, searchVars, historyVars>>

(***************************************************************************)
(* Specifications.                                                         *)
(***************************************************************************)

OthersIdle(c) == \A d \in Callers \ {c} : pc[d] = "idle"

\* Calls of insert_repositories made one after another.
Next ==
    \E c \in Callers :
        \/ /\ pc[c] = "idle"
           /\ OthersIdle(c)
           /\ \E t \in TableNames, repos \in Batches : InsertCall(c, t, repos)
        \/ InsertRecord(c)
        \/ InsertCommit(c)
        \/ InsertReturn(c)

Spec == Init /\ [][Next]_vars

\* Each concurrent caller writes its own star count, which tells the callers'
\* rows apart in the table.
CallerStars == [c \in Callers |-> IF c = "c1" THEN 10 ELSE 99]

ConcBatches(c) ==
    {b \in Batches : \A i \in 1..Len(b) : b[i].stargazers_count = CallerStars[c]}

\* Calls of insert_repositories running concurrently on the shared pool,
\* beside a reader calling get_table_stats.
NextConc ==
    \/ \E c \in Callers :
        \/ /\ pc[c] = "idle"
           /\ \E t \in exists, repos \in ConcBatches(c) : InsertCall(c, t, repos)
        \/ InsertRecord(c)
        \/ InsertDeadlock(c)
        \/ InsertCommit(c)
        \/ InsertReturn(c)
    \/ /\ rpc = "idle"
       /\ \E t \in TableNames : StatsCall(t)
    \/ StatsQuery
    \/ StatsReturn

SpecConc == Init /\ [][NextConc]_vars

\* The responses of a server whose bodies and headers vary little.
RetryResponses ==
    {r \in Responses :
        /\ r.body \in {"search_response", "garbage", MessageOnly}
        /\ r.reset = Some("1700000000")}

\* Calls of search_repositories_with_config under every policy, one after
\* another, against a server that answers each request or not at all.
SearchStep ==
    \/ SearchTransportError
    \/ \E r \in RetryResponses, now \in Clock :
          SearchResponse(r.status, r.body, r.reset, now)
    \/ SearchWake

NextSearch ==
    \/ /\ spc = "idle"
       /\ \E q \in Queries, cfg \in RateLimitConfig : SearchCall(q, None, None, cfg)
    \/ SearchStep
    \/ SearchReturn

\* Every request ends (the client's 30 s timeout) and every sleep ends.
SpecSearch == Init /\ [][NextSearch]_vars /\ WF_vars(SearchStep)

\* The default policy with few retries.
ResponsePolicies ==
    {cfg \in RateLimitConfig :
        /\ cfg.max_retries <= 2
        /\ cfg.initial_backoff_ms = DefaultConfig.initial_backoff_ms
        /\ cfg.max_backoff_ms = DefaultConfig.max_backoff_ms
        /\ cfg.backoff_multiplier = DefaultConfig.backoff_multiplier}

\* Calls against a server that answers with every body and every reset header.
NextResponses ==
    \/ /\ spc = "idle"
       /\ \E q \in Queries, cfg \in ResponsePolicies : SearchCall(q, None, None, cfg)
    \/ SearchTransportError
    \/ \E r \in Responses, now \in Clock : SearchResponse(r.status, r.body, r.reset, now)
    \/ SearchWake
    \/ SearchReturn

SpecResponses == Init /\ [][NextResponses]_vars

\* Calls with every per_page and page: of search_repositories, which uses the
\* default policy, and with an empty query under every policy.
NextParams ==
    \/ /\ spc = "idle"
       /\ \E q \in Queries, pp \in PerPages, pg \in Pages : search_repositories(q, pp, pg)
    \/ /\ spc = "idle"
       /\ \E pp \in PerPages, pg \in Pages, cfg \in RateLimitConfig :
             SearchCall("", pp, pg, cfg)
    \/ SearchStep
    \/ SearchReturn

SpecParams == Init /\ [][NextParams]_vars

\* One task that creates tables, upserts into the table that is not there at
\* first and reads the tables' statistics, one call after another.
NextStats ==
    \/ /\ pc["c1"] = "idle"
       /\ rpc = "idle"
       /\ \E t \in TableNames, failed \in CreateFailures : create_repository_table(t, failed)
    \/ /\ pc["c1"] = "idle"
       /\ rpc = "idle"
       /\ \E repos \in StatsBatches : InsertCall("c1", "repos_20240101000001", repos)
    \/ InsertRecord("c1")
    \/ InsertCommit("c1")
    \/ InsertReturn("c1")
    \/ /\ pc["c1"] = "idle"
       /\ rpc = "idle"
       /\ \E t \in TableNames : StatsCall(t)
    \/ StatsQuery
    \/ StatsReturn

SpecStats == Init /\ [][NextStats]_vars

\* Executions of the workflow, one after another; after an execution its
\* caller reads the statistics of the execution's table and the newest
\* successful entry of the history.
NextWorkflow ==
    \/ /\ wpc = "idle"
       /\ \E now \in Instants, t \in {"repos_20240101000001"}, started \in Starts :
             WorkflowCall("language:rust", now, t, started)
    \/ \E failed \in CreateFailures : WorkflowCreateTable(failed)
    \/ /\ wpc = "search"
       /\ \E r \in SearchResults, d \in Durations : WorkflowSearch(r, d)
    \/ WorkflowStore
    \/ InsertRecord("c1")
    \/ InsertCommit("c1")
    \/ WorkflowStored
    \/ WorkflowStoreReturn
    \/ \E ok \in BOOLEAN : WorkflowSave(ok)
    \/ /\ wpc = "done"
       /\ wresult.kind = "Ok"
       /\ pc["c1"] = "idle"
       /\ hpc = "idle"
       /\ StatsCall(query_metadata.table_name)
    \/ StatsQuery
    \/ StatsReturn
    \/ /\ wpc = "done"
       /\ rpc # "query"
       /\ get_query_history(Some(1), TRUE)
    \/ HistoryReturn
    \/ WorkflowReturn

SpecWorkflow == Init /\ [][NextWorkflow]_vars

\* Calls of save_query_metadata and get_query_history, one after another.
NextHistory ==
    \/ /\ hpc = "idle"
       /\ \E m \in Metadatas, ok \in BOOLEAN : save_query_metadata(m, ok)
    \/ /\ hpc = "idle"
       /\ \E l \in Limits, so \in BOOLEAN : get_query_history(l, so)
    \/ HistoryReturn

SpecHistory == Init /\ [][NextHistory]_vars

\* One task that upserts records one call after another into the table that
\* is there, the same ids again with other owner ids and creation times.
NextUpsert ==
    \/ /\ pc["c1"] = "idle"
       /\ \E repos \in UpsertBatches : InsertCall("c1", "repos_20240101000000", repos)
    \/ InsertRecord("c1")
    \/ InsertCommit("c1")
    \/ InsertReturn("c1")

SpecUpsert == Init /\ [][NextUpsert]_vars

\* One task that creates, drops and lists tables under every name, upserts
\* into the tables with generated names and reads statistics, one call after
\* another.
NextTables ==
    \/ /\ pc["c1"] = "idle"
       /\ rpc = "idle"
       /\ \E t \in AnyNames, failed \in CreateFailures : create_repository_table(t, failed)
    \/ /\ pc["c1"] = "idle"
       /\ rpc = "idle"
       /\ \E t \in AnyNames, failed \in BOOLEAN : drop_table(t, failed)
    \/ /\ pc["c1"] = "idle"
       /\ rpc = "idle"
       /\ \E failed \in BOOLEAN : list_repository_tables(failed)
    \/ /\ pc["c1"] = "idle"
       /\ rpc = "idle"
       /\ \E t \in TableNames,
             repos \in SeqsUpTo({r \in StatsRepository : r.id = 1 /\ r.language = Some("Rust")}, 1) :
             InsertCall("c1", t, repos)
    \/ InsertRecord("c1")
    \/ InsertCommit("c1")
    \/ InsertReturn("c1")
    \/ /\ pc["c1"] = "idle"
       /\ rpc = "idle"
       /\ \E t \in AnyNames : StatsCall(t)
    \/ StatsQuery
    \/ StatsReturn

SpecTables == Init /\ [][NextTables]_vars

\* Calls of generate_table_name while the clock moves on.
NextNames ==
    \/ \E at \in DateTimes : ClockAdvance(at)
    \/ generate_table_name

SpecNames == Init /\ [][NextNames]_vars

(***************************************************************************)
(* Properties of insert_repositories.                                      *)
(***************************************************************************)

\* A record that Repository::validate rejects: the inputs' only rejected
\* records are those whose full_name is empty.
Rejected(repo) == repo.full_name = ""

HasRejected(batch) == \E i \in 1..Len(batch) : Rejected(batch[i])

\* C1: a call whose non-empty batch holds a record failing validation, at any
\* position, returns an error, and from its entry to its return no step
\* changes the committed contents of any table: the table afterwards is the
\* table before the call.
C1_InvalidBatchCommitsNothing ==
    [][\A c \in Callers :
          /\ (pc[c] = "idle" /\ pc'[c] # "idle" /\ HasRejected(repositories'[c]))
                => committed' = committed
          /\ (pc[c] = "loop" /\ HasRejected(repositories[c]))
                => /\ committed' = committed
                   /\ pc'[c] \in {"loop", "done"}
                   /\ pc'[c] = "done" => result'[c].kind \notin {"Ok", "None"}]_vars

\* C1 witness: a call has failed on its second record after writing its first
\* inside the transaction, on a table that already holds rows.
C1_Witness ==
    \E c \in Callers :
        /\ pc[c] = "done"
        /\ result[c] = Err("Validation")
        /\ idx[c] = 2
        /\ ~Rejected(repositories[c][1])
        /\ committed[table_name[c]] # {}
        /\ repositories[c][1] \notin committed[table_name[c]]

\* C2: under every interleaving of calls and readers the committed content of
\* each table is the result of applying whole committed batches, and the
\* statistics a reader is given are those of whole committed batches.
C2_OnlyWholeBatchesVisible ==
    /\ \A t \in TableNames : committed[t] = applied[t]
    /\ rpc = "done" => rresult = rexpected

\* C2 witness: the reader holds statistics of a table while a call has written
\* rows to it that are not committed.
C2_Witness ==
    /\ rpc = "done"
    /\ rresult.kind = "Ok"
    /\ \E c \in Callers :
          /\ tx[c].open
          /\ table_name[c] = rtable
          /\ idx[c] = 2
          /\ Len(repositories[c]) = 2
          /\ tx[c].writes # {}
          /\ ~(tx[c].writes \subseteq committed[rtable])

\* C3: every table holds at most one row per github_id, and its row count is
\* the number of distinct ids of the batches committed to it.
C3_OneRowPerId ==
    \A t \in TableNames :
        /\ \A r1, r2 \in committed[t] : r1.id = r2.id => r1 = r2
        /\ Cardinality(committed[t]) = Cardinality(committedIds[t])

\* C3 witness: a committed batch has upserted the same id twice into a table
\* that holds another id as well.
C3_Witness ==
    \E c \in Callers :
        /\ pc[c] = "done"
        /\ result[c].kind = "Ok"
        /\ Len(repositories[c]) = 2
        /\ repositories[c][1].id = repositories[c][2].id
        /\ repositories[c][1] # repositories[c][2]
        /\ Cardinality(committed[table_name[c]]) = 2

\* The committed row of record repo's id differs from repo in its star count.
StarsDiffer(rows, repo) ==
    \E old \in rows : old.id = repo.id /\ old.stargazers_count # repo.stargazers_count

\* C4: committing the re-upsert of one record whose id is present with another
\* star count leaves the number of rows unchanged, makes that row the record,
\* leaves every other row unchanged, and max_stars covers the new count.
C4_ReupsertReplacesStars ==
    [][\A c \in Callers :
          LET t == table_name[c]
              repo == repositories[c][1]
          IN  (/\ pc[c] = "loop" /\ pc'[c] = "done" /\ result'[c].kind = "Ok"
               /\ Len(repositories[c]) = 1
               /\ StarsDiffer(committed[t], repo))
              => /\ Cardinality(committed'[t]) = Cardinality(committed[t])
                 /\ {r \in committed'[t] : r.id = repo.id} = {repo}
                 /\ {r \in committed'[t] : r.id # repo.id}
                        = {r \in committed[t] : r.id # repo.id}
                 /\ TableStats(committed'[t]).max_stars
                        = Max({repo.stargazers_count} \cup
                              {r.stargazers_count : r \in committed[t] \ {x \in committed[t] : x.id = repo.id}})]_vars

\* C4 witness: the re-upsert of one record with a new star count has run in
\* its transaction against a table of two rows and is about to commit.
C4_Witness ==
    \E c \in Callers :
        /\ pc[c] = "loop"
        /\ Len(repositories[c]) = 1
        /\ idx[c] = 2
        /\ StarsDiffer(committed[table_name[c]], repositories[c][1])
        /\ Cardinality(committed[table_name[c]]) = 2
        /\ tx[c].writes = {repositories[c][1]}

\* C5: a successful call returns the number of records of its batch.
C5_CountIsBatchSize ==
    \A c \in Callers :
        (pc[c] = "done" /\ result[c].kind = "Ok")
            => result[c].value = Len(repositories[c])

\* C5 witness: a successful call of two records, the second of which updated
\* the row of the first.
C5_Witness ==
    \E c \in Callers :
        /\ pc[c] = "done"
        /\ result[c] = Ok(2)
        /\ repositories[c][1].id = repositories[c][2].id

\* C6: a call with an empty batch returns 0 at once, for an existing or an
\* absent table: it opens no transaction, issues no statement and leaves the
\* tables unchanged.
C6_EmptyBatchNoEffect ==
    [][\A c \in Callers :
          (pc[c] = "idle" /\ pc'[c] # "idle" /\ repositories'[c] = <<>>)
              => /\ pc'[c] = "done"
                 /\ result'[c] = Ok(0)
                 /\ tx' = tx
                 /\ ~tx'[c].open
                 /\ statements'[c] = 0
                 /\ committed' = committed
                 /\ exists' = exists]_vars

\* C6 witness: a call with an empty batch on an absent table has returned 0.
C6_Witness ==
    \E c \in Callers :
        /\ pc[c] = "done"
        /\ repositories[c] = <<>>
        /\ table_name[c] \notin exists
        /\ result[c] = Ok(0)
        /\ statements[c] = 0

(***************************************************************************)
(* Properties of search_repositories_with_config.                          *)
(***************************************************************************)

\* C7: a search call with max_retries = N sends at most N + 1 requests and
\* sleeps at most N times; when its first N + 1 responses are all 403 or 429
\* it has failed with RateLimit after exactly N + 1 requests and N sleeps; and
\* every call that sends a request ends.
C7_BoundedRetries ==
    /\ [](spc # "idle" =>
            /\ requests <= config.max_retries + 1
            /\ sleeps <= config.max_retries
            /\ limited <= config.max_retries + 1
            /\ limited = config.max_retries + 1 =>
                  /\ spc = "done"
                  /\ sresult = Err("RateLimit")
                  /\ requests = config.max_retries + 1
                  /\ sleeps = config.max_retries)
    /\ (spc = "send" ~> spc = "done")

\* C7 witness: a call with max_retries = 3 has failed with RateLimit on its
\* fourth rate-limited response, after three sleeps.
C7_Witness ==
    /\ spc = "done"
    /\ sresult = Err("RateLimit")
    /\ config.max_retries = 3
    /\ limited = 4
    /\ requests = 4
    /\ sleeps = 3

\* C8: a call whose last response is a 200 with a decodable body, after at
\* most max_retries rate-limited responses, returns Ok with the decoded body;
\* RateLimit is returned only when the call has received more than max_retries
\* rate-limited responses (a call that panicked on its backoff sum returns
\* nothing).
C8_RateLimitOnlyWhenExhausted ==
    /\ (spc = "done" /\ response = [status |-> 200, body |-> "search_response"])
          => (sresult = Ok("search_response") /\ limited <= config.max_retries)
    /\ (spc = "done" /\ sresult.kind = "RateLimit") => limited > config.max_retries
    /\ (spc = "done" /\ limited <= config.max_retries /\ limited > 0
           /\ sresult.kind # "Panic")
          => (response.status \notin {403, 429} /\ sresult.kind # "RateLimit")

\* C8 witness: max_retries = 3 rate-limited responses, then a 200: Ok.
C8_Witness ==
    /\ spc = "done"
    /\ config.max_retries = 3
    /\ limited = 3
    /\ response.status = 200
    /\ sresult = Ok("search_response")

\* C9: within one call the values of backoff_ms, from initial_backoff_ms on,
\* never decrease, whatever the retry policy.
C9_BackoffMonotonic ==
    \A i, j \in 1..Len(backoffs) : i <= j => backoffs[i] <= backoffs[j]

\* The first eight backoff bases of policy {initial 1000, multiplier 2.0,
\* max 60000}.
ExampleBases == <<1000, 2000, 4000, 8000, 16000, 32000, 60000, 60000>>

\* C10: every value of backoff_ms a sleep is computed from, the first one
\* included, is at most max_backoff_ms, whatever the retry policy; and policy
\* {initial 1000, multiplier 2.0, max 60000} gives the bases 1000, 2000, 4000,
\* 8000, ... capped at 60000.
C10_BaseAtMostMax ==
    /\ \A i \in 1..Len(bases) : bases[i] <= config.max_backoff_ms
    /\ (/\ config.initial_backoff_ms = 1000
        /\ config.backoff_multiplier = 4
        /\ config.max_backoff_ms = 60000)
          => \A i \in 1..Min(Len(bases), Len(ExampleBases)) : bases[i] = ExampleBases[i]

\* C11: every backoff sleep lasts at least the current backoff_ms and at most
\* backoff_ms + backoff_ms / 4 (the jitter is between 0 and a quarter of
\* backoff_ms), and each next backoff_ms is computed from the previous one and
\* the policy alone, never from the jitter.
C11_SleepWithinQuarter ==
    /\ spc = "sleep" =>
          /\ backoff_ms <= delay
          /\ delay <= backoff_ms + backoff_ms \div 4
    /\ \A i \in 2..Len(backoffs) :
          backoffs[i] = Min(Min((backoffs[i - 1] * config.backoff_multiplier) \div 2, u64_MAX),
                            config.max_backoff_ms)

\* C12: a 401 response, at the first attempt or after any number of backoffs
\* and under every policy, ends the call at once with an Authentication
\* error: the step that receives it begins no sleep, and the ended call sends
\* no further request.
C12_UnauthorizedIsFatal ==
    [][/\ (spc = "send" /\ requests' = requests + 1 /\ response'.status = 401)
            => /\ spc' = "done"
               /\ sresult' = Err("Authentication")
               /\ serror' = authentication(<<"Invalid or expired GitHub token">>)
               /\ sleeps' = sleeps
               /\ delay' = 0
       /\ (spc = "done" /\ response.status = 401)
            => /\ spc' = "idle"
               /\ requests' = 0]_vars

\* C12 witness: a call under a policy of seven retries has ended with an
\* Authentication error on the 401 that followed two backoffs.
C12_Witness ==
    /\ spc = "done"
    /\ response.status = 401
    /\ sresult = Err("Authentication")
    /\ config.max_retries = 7
    /\ sleeps = 2
    /\ requests = 3

\* The reason of a 422 with a given body: the top-level message if the body
\* is JSON with one, else the errors' messages joined if there is any, else
\* the generic text.
ExpectedReason ==
    [b \in Bodies |->
        CASE b \in {MessageOnly, MessageAndErrors} -> <<"Validation Failed">>
          [] b = ErrorsOnly -> <<"Error 1", ", ", "Error 2">>
          [] b = ErrorsPartly -> <<"Error 2">>
          [] b = MessageNotString -> <<"Error 1">>
          [] OTHER -> <<"Invalid query format">>]

C14_ReasonHasErrorMessages ==
    (spc = "done" /\ response = [status |-> 422, body |-> MessageAndErrors])
        => /\ sresult = Err("InvalidQuery")
           /\ \E k \in DOMAIN serror.reason :
                 serror.reason[k] = "The search is longer than 256 characters."

\* C15: every 2xx response (200..299) is a success: its decodable body is
\* decoded and returned, and no 2xx status produces an API error.
C15_Every2xxSucceeds ==
    (spc = "done" /\ response.status \in 200..299)
        => /\ sresult.kind # "GitHubApi"
           /\ response.body = "search_response" => sresult = Ok("search_response")

\* C16: a response whose status is neither 2xx nor 401, 403, 422 or 429 ends
\* the call at once, at the first attempt or after backoffs, with a GitHubApi
\* error whose message embeds the status code and the raw body; the step
\* begins no sleep.
C16_OtherStatusIsFatal ==
    [][(/\ spc = "send"
        /\ requests' = requests + 1
        /\ response' # NoResponse
        /\ response'.status \notin (200..299) \cup {401, 403, 422, 429})
          => /\ spc' = "done"
             /\ sresult' = Err("GitHubApi")
             /\ \E i, j \in DOMAIN serror'.message :
                   /\ i < j
                   /\ serror'.message[i] = ToString(response'.status)
                   /\ serror'.message[j] = response'.body
             /\ sleeps' = sleeps
             /\ delay' = 0]_vars

\* C16 witness: a 500 received after two backoffs has ended the call with a
\* GitHubApi error showing 500 and the body.
C16_Witness ==
    /\ spc = "done"
    /\ response = [status |-> 500, body |-> "garbage"]
    /\ sleeps = 2
    /\ requests = 3
    /\ sresult = Err("GitHubApi")
    /\ serror = github_api(<<"HTTP ", "500", ": ", "garbage">>)

\* C17: a request that fails in transport, at any attempt, ends the call at
\* once with an Http error: the step begins no backoff, and the ended call
\* sends no further request.
C17_TransportFailureIsFatal ==
    [][/\ (spc = "send" /\ requests' = requests + 1 /\ response' = NoResponse)
            => /\ spc' = "done"
               /\ sresult' = Err("Http")
               /\ serror' = http_error
               /\ sleeps' = sleeps
               /\ delay' = 0
       /\ (spc = "done" /\ response = NoResponse /\ requests > 0)
            => /\ spc' = "idle"
               /\ requests' = 0]_vars

\* C17 witness: the third request of a call, sent after two backoffs, has
\* failed in transport and the call has ended with an Http error.
C17_Witness ==
    /\ spc = "done"
    /\ response = NoResponse
    /\ requests = 3
    /\ sleeps = 2
    /\ sresult = Err("Http")

\* C18: a call with an empty query, whatever its per_page, page and policy,
\* ends at once with an InvalidQuery error of query "" and a reason saying
\* that the query cannot be empty, and sends no request.
C18_EmptyQueryRejected ==
    [][/\ (spc = "idle" /\ spc' # "idle" /\ query' = "")
            => /\ spc' = "done"
               /\ sresult' = Err("InvalidQuery")
               /\ serror' = invalid_query("", <<"Query cannot be empty">>)
               /\ requests' = 0
               /\ sent' = NoRequest
       /\ (spc = "done" /\ query = "")
            => /\ requests = 0
               /\ spc' = "idle"
               /\ requests' = 0]_vars

\* C18 witness: a call with an empty query, per_page 150, page 0 and a policy
\* without retries has ended with the InvalidQuery error and no request.
C18_Witness ==
    /\ spc = "done"
    /\ query = ""
    /\ per_page = Some(150)
    /\ page = Some(0)
    /\ config.max_retries = 0
    /\ config.initial_backoff_ms = 0
    /\ sresult = Err("InvalidQuery")
    /\ requests = 0

\* C19: every request carries a per_page within 1..100 and a page of at least
\* 1: a per_page in range is sent as it is, 0 as 1, a value above 100 as 100,
\* an unspecified one as 30; a page of at least 1 is sent as it is, 0 as 1, an
\* unspecified one as 1; and no call with a query is ended before its request.
C19_ParametersClamped ==
    /\ requests > 0 =>
          /\ sent.q = query
          /\ sent.per_page \in 1..100
          /\ sent.page >= 1
          /\ sent.per_page = (IF per_page = None THEN 30
                              ELSE IF per_page[1] = 0 THEN 1
                              ELSE IF per_page[1] > 100 THEN 100
                              ELSE per_page[1])
          /\ sent.page = (IF page = None \/ page[1] = 0 THEN 1 ELSE page[1])
    /\ (spc = "done" /\ query # "") => requests > 0

\* C19 witness: a request of a call with per_page 150 and page 0 has been
\* sent with per_page 100 and page 1.
C19_Witness ==
    /\ requests > 0
    /\ per_page = Some(150)
    /\ page = Some(0)
    /\ sent = [q |-> "language:rust", per_page |-> 100, page |-> 1]

\* C20: a RateLimit error carries the time of the x-ratelimit-reset header of
\* the last response when that header is present and is an integer, and
\* "unknown" exactly when it is absent or is not an integer: never a time that
\* does not come from the header.
C20_ResetTimeFromHeader ==
    (spc = "done" /\ sresult = Err("RateLimit"))
        => IF reset_header # None /\ reset_header[1] \in ParsesAsI64
           THEN serror.reset_time = format(reset_header[1])
           ELSE serror.reset_time = <<"unknown">>

(***************************************************************************)
(* Properties of the query history.                                        *)
(***************************************************************************)

\* C24: after any sequence of save_query_metadata calls the history holds
\* exactly one row for every id saved and none for any other id, and the
\* row's result_count, duration_ms, success and error_message are those of
\* the most recent save of that id.
C24_OneRowPerMetadataId ==
    /\ \A r1, r2 \in history : r1.id = r2.id => r1 = r2
    /\ \A r \in history : lastSaved[r.id] # NoMetadata
    /\ \A i \in MetadataIds :
          lastSaved[i] # NoMetadata =>
              \E r \in history :
                  /\ r.id = i
                  /\ r.result_count = lastSaved[i].result_count
                  /\ r.duration_ms = lastSaved[i].duration_ms
                  /\ r.success = lastSaved[i].success
                  /\ r.error_message = lastSaved[i].error_message

\* C24 witness: an id saved again, as a success, by a metadata of another
\* executed_at has one row, which shows the success and keeps the executed_at
\* of the first save, beside the row of another id.
C24_Witness ==
    /\ Cardinality(history) = 2
    /\ \E r \in history :
          /\ r.success
          /\ r.result_count = 2
          /\ r.error_message = None
          /\ lastSaved[r.id].executed_at # r.executed_at

\* C25: get_query_history with a limit that is absent or not negative returns
\* saved rows without repetition, newest first by executed_at; with
\* success_only they are successful rows only; without a limit they are all
\* the (successful) rows, and with a limit L they are the first L of them in
\* that order: no row left out is newer than a row returned.
C25_HistoryNewestFirst ==
    (hpc = "done" /\ (limit = None \/ limit[1] >= 0)) =>
        LET v == hresult.value
            F == {r \in history : success_only => r.success}
        IN  /\ hresult.kind = "Ok"
            /\ \A i \in 1..Len(v) : v[i] \in F
            /\ \A i, j \in 1..Len(v) : i < j =>
                  /\ v[i] # v[j]
                  /\ v[i].executed_at >= v[j].executed_at
            /\ Len(v) = IF limit = None \/ limit[1] >= Cardinality(F)
                        THEN Cardinality(F) ELSE limit[1]
            /\ \A r \in F : (\A i \in 1..Len(v) : v[i] # r) =>
                  \A i \in 1..Len(v) : v[i].executed_at >= r.executed_at

\* C25 witness: of a failed row and an older successful row, the call with
\* success_only and limit 1 has returned the successful one.
C25_Witness ==
    /\ hpc = "done"
    /\ success_only
    /\ limit = Some(1)
    /\ Cardinality(history) = 2
    /\ \E r1, r2 \in history :
          /\ ~r1.success
          /\ r2.success
          /\ r1.executed_at > r2.executed_at
          /\ hresult = [kind |-> "Ok", value |-> <<r2>>]

(***************************************************************************)
(* Properties of the table statistics.                                     *)
(***************************************************************************)

\* C29: every TableStats that get_table_stats returns, after any creations
\* of tables and upserts, has unique_owners <= total_repositories and
\* unique_languages <= total_repositories.
C29_UniqueCountsWithinTotal ==
    (rpc = "done" /\ rresult.kind = "Ok") =>
        /\ rresult.unique_owners <= rresult.total_repositories
        /\ rresult.unique_languages <= rresult.total_repositories

\* C29 witness: statistics returned for a created table that holds two rows
\* of one owner, neither with a language.
C29_Witness ==
    /\ rpc = "done"
    /\ rresult.kind = "Ok"
    /\ rtable = "repos_20240101000001"
    /\ rresult.total_repositories = 2
    /\ rresult.unique_owners = 1
    /\ rresult.unique_languages = 0

C27_AbsentTableIsNotFound ==
    (rpc = "done" /\ rtable \notin exists) =>
        /\ rresult.kind \notin {"Ok", "Panic"}
        /\ rresult.kind # "Database"

\* C28: get_table_stats of an existing table without rows succeeds, with
\* total_repositories = 0 and avg_stars = 0.
C28_EmptyTableStats ==
    (rpc = "done" /\ rtable \in exists /\ committed[rtable] = {}) =>
        /\ rresult.kind = "Ok"
        /\ rresult.total_repositories = 0
        /\ rresult.avg_stars = f64(0, 1)

(***************************************************************************)
(* Properties of the workflow.                                             *)
(***************************************************************************)

\* The positions of the execution's log that hold one of the events.
Positions(events) == {i \in 1..Len(wlog) : wlog[i] \in events}

Saves == Positions({"save", "save failed"})

Marks == Positions({"mark_success", "mark_failure"})

SearchFailed == search_result.kind \notin {"None", "Ok"}

\* The row of the history that has the id of the execution's metadata.
SavedRow == {r \in history : r.id = query_metadata.id}

\* C21: an execution whose search failed ends with the metadata marked
\* failed, its error message being the text of the search error, after
\* exactly one save of it was attempted; it returns the search error whether
\* the save succeeded or not, and a failed save left a warning only.
C21_SearchErrorReturned ==
    (wpc = "done" /\ SearchFailed) =>
        /\ ~query_metadata.success
        /\ query_metadata.error_message =
              Some(to_string(search_result.kind, search_result.error))
        /\ Cardinality(Saves) = 1
        /\ wresult = Outcome(search_result.kind, search_result.error)
        /\ Positions({"save failed"}) # {} <=> Positions({"warning"}) # {}
        /\ Positions({"save"}) # {} =>
              \E r \in SavedRow : ~r.success /\ r.error_message = query_metadata.error_message

\* C21 witness: the search was rate limited, the save of the failed metadata
\* failed too, and the execution returned the rate limit error.
C21_Witness ==
    /\ wpc = "done"
    /\ search_result.kind = "RateLimit"
    /\ Positions({"save failed"}) # {}
    /\ Positions({"warning"}) # {}
    /\ wresult.kind = "RateLimit"
    /\ SavedRow = {}

\* C22: an execution that issued the search request and whose save of the
\* history did not fail ends with a row of the history for its metadata id
\* that records its outcome, whichever step failed after the search.
C22_SearchedIsRecorded ==
    (wpc = "done" /\ Positions({"search"}) # {} /\ Positions({"save failed"}) = {}) =>
        \E r \in SavedRow : r.success <=> wresult.kind = "Ok"

\* The metadata in the shape QueryMetadata::new gives it.
PendingShape(m) ==
    /\ ~m.success
    /\ m.result_count = 0
    /\ m.duration_ms = 0
    /\ m.error_message = None

\* C26: the metadata of an execution is pending until its terminal mutation;
\* every save of an execution comes after exactly one mark_success or
\* mark_failure of that execution; an execution saves at most once; and no
\* row of the history has the pending shape.
C26_MarkedOnceBeforeSave ==
    /\ wpc \in {"create", "search", "store"} => PendingShape(query_metadata)
    /\ \A i \in Saves : Cardinality({j \in Marks : j < i}) = 1
    /\ Cardinality(Marks) <= 1
    /\ Cardinality(Saves) <= 1
    /\ \A r \in history : ~PendingShape(r)

\* C26 witness: a search that failed at once (duration 0) was marked failed
\* and saved; its row differs from the pending shape by the message only.
C26_Witness ==
    /\ wpc = "done"
    /\ Marks # {}
    /\ Positions({"mark_failure"}) # {}
    /\ Positions({"save"}) # {}
    /\ \E r \in SavedRow : r.duration_ms = 0 /\ r.result_count = 0 /\ ~r.success

\* An execution that succeeded after persisting the items of its search, one
\* at least, into a table that had no rows.
PersistedIntoFreshTable ==
    /\ wpc = "done"
    /\ wresult.kind = "Ok"
    /\ search_result.items # <<>>
    /\ Positions({"fresh table"}) # {}

\* What C23 says of such an execution that returned n items: the statistics
\* returned for its table have total_repositories = n and the distinct owners
\* and languages of the items; its saved metadata has success = true and
\* result_count = n; and it is the element of get_query_history(1, true)
\* when it is the newest successful entry.
ReadsAfterExecution ==
    LET items == search_result.items
        n == Len(items)
    IN  /\ (rpc = "done" /\ rresult.kind = "Ok") =>
              /\ rresult.total_repositories = n
              /\ rresult.unique_owners =
                    Cardinality({items[i].owner_login : i \in 1..n})
              /\ rresult.unique_languages =
                    Cardinality({items[i].language : i \in 1..n} \ {None})
        /\ \E r \in SavedRow :
              /\ r.success
              /\ r.result_count = n
              /\ (/\ hpc = "done"
                  /\ \A o \in history \ {r} : o.success => o.executed_at < r.executed_at)
                    => hresult = [kind |-> "Ok", value |-> <<r>>]

C37_SharedIdsBothSucceed ==
    \A c \in Callers :
        (/\ pc[c] = "done"
         /\ table_name[c] \in exists
         /\ ~HasRejected(repositories[c]))
            => result[c].kind = "Ok"

\* The ids of c's batch are ids of no batch of a transaction open on c's table.
DisjointFromOpen(c) ==
    \A d \in Callers \ {c} :
        (tx[d].open /\ table_name[d] = table_name[c])
            => BatchIds(repositories[c]) \cap BatchIds(repositories[d]) = {}

\* C35: a call with valid records on an existing table, whose ids are
\* disjoint from those of the calls running beside it on that table, is never
\* aborted, succeeds and returns its batch size; its commit adds its records
\* to the table and leaves the other rows as they are, so that the table
\* holds the union of the batches.
C35_DisjointBatchesAllStored ==
    [][\A c \in Callers :
          LET t == table_name[c]
              b == repositories[c]
          IN  (/\ pc[c] = "loop"
               /\ pc'[c] = "done"
               /\ t \in exists
               /\ ~HasRejected(b)
               /\ DisjointFromOpen(c))
              => /\ result'[c] = Ok(Len(b))
                 /\ committed'[t] =
                       {r \in committed[t] : r.id \notin BatchIds(b)} \cup ApplyBatch({}, b)
                 /\ \A d \in Callers \ {c} : tx'[d] = tx[d]]_vars

\* C35 witness: two calls on one table, with batches of disjoint ids, have
\* both written their records in transactions that are open together, and
\* neither has committed.
C35_Witness ==
    /\ table_name["c1"] = table_name["c2"]
    /\ \A c \in Callers :
          /\ pc[c] = "loop"
          /\ tx[c].open
          /\ repositories[c] # <<>>
          /\ idx[c] > Len(repositories[c])
          /\ tx[c].writes # {}
    /\ BatchIds(repositories["c1"]) \cap BatchIds(repositories["c2"]) = {}

(***************************************************************************)
(* Properties of the columns an upsert writes.                             *)
(***************************************************************************)

\* C38: the commit of a successful upsert of one record makes the row of the
\* record's id equal to the record in every column.
C38_RowEqualsLastUpsert ==
    [][\A c \in Callers :
          LET t == table_name[c]
              repo == repositories[c][1]
          IN  (/\ pc[c] = "loop" /\ pc'[c] = "done" /\ result'[c].kind = "Ok"
               /\ Len(repositories[c]) = 1)
              => {r \in committed'[t] : r.id = repo.id} = {repo}]_vars

(***************************************************************************)
(* Properties of a call of insert_repositories that a database error ends. *)
(***************************************************************************)

\* C40: the step by which a call returns a database error out of its loop
\* commits nothing, so no record the call wrote before the failing one is in
\* any table, and once a call has returned, with Ok or with any error, it
\* holds no open transaction.
C40_DatabaseErrorRollsBack ==
    [][\A c \in Callers :
          /\ (/\ pc[c] = "loop" /\ pc'[c] = "done" /\ result'[c].kind = "Database")
                 => /\ committed' = committed
                    /\ result'[c] = Err("Database")
          /\ pc'[c] \in {"done", "idle"} => tx'[c] = NoTx]_vars

\* C40 witness: a call on an existing table has returned a database error
\* from the write of its second record, after its first record was written
\* in its transaction; the table holds no row of the first record's id.
C40_Witness ==
    \E c \in Callers :
        /\ pc[c] = "done"
        /\ result[c].kind = "Database"
        /\ table_name[c] \in exists
        /\ idx[c] = 2
        /\ inserted_count[c] = 1
        /\ repositories[c][1].id \notin RowIds(committed[table_name[c]])

(***************************************************************************)
(* Properties of the table operations.                                     *)
(***************************************************************************)

\* The characters of a managed table name.
ManagedChars == "_0123456789abcdefghijklmnopqrstuvwxyzABCDEFGHIJKLMNOPQRSTUVWXYZ"

\* The name begins with "repos_" and is written with managed characters only.
WellFormed(name) ==
    /\ Len(name) >= 6
    /\ SubSeq(name, 1, 6) = "repos_"
    /\ \A i \in 1..Len(name) :
          \E j \in 1..Len(ManagedChars) : SubSeq(name, i, i) = SubSeq(ManagedChars, j, j)

\* The names in a sequence.
Range(seq) == {seq[i] : i \in 1..Len(seq)}

\* The step is a call of table operation op.
TableStep(op) ==
    /\ tcall'.op = op
    /\ UNCHANGED <<callVars, readerVars>>

\* C31: drop_table answers a name that lacks the prefix "repos_" or holds a
\* character other than alphanumerics and underscore with a Validation error,
\* sends no SQL for it and leaves every table and its rows as they are; the
\* four names the claim lists are among those; and every DROP statement sent
\* names a well-formed name.
C31_DropRejectsIllFormedNames ==
    [][TableStep("drop_table") =>
          /\ ~WellFormed(tcall'.name) =>
                /\ tresult' = Err("Validation")
                /\ issued' = <<>>
                /\ UNCHANGED storeVars
          /\ tcall'.name \in {"evil; DROP TABLE x", "no_prefix",
                              "repos_; DROP TABLE users; --", ""} =>
                tresult' = Err("Validation")
          /\ \A i \in 1..Len(issued') :
                issued'[i].command = "DROP TABLE IF EXISTS" => WellFormed(issued'[i].name)]_vars

\* C31 witness: drop_table has rejected the name that begins with the prefix
\* and goes on with a second command, while a table with rows is there.
C31_Witness ==
    /\ tcall.op = "drop_table"
    /\ tcall.name = "repos_; DROP TABLE users; --"
    /\ tresult = Err("Validation")
    /\ issued = <<>>
    /\ \E t \in TableNames : t \in exists /\ committed[t] # {}

\* C32: a list that follows a successful create_repository_table(name) holds
\* name, a list that follows a successful drop_table(name) does not, and
\* drop_table of a well-formed name whose table is absent succeeds and leaves
\* every table as it is.
C32_CreatedListedDroppedGone ==
    [][/\ (tcall'.op = "list_repository_tables" /\ tresult' = Ok(0)
             /\ tresult = Ok(0)) =>
            /\ tcall.op = "create_repository_table" => tcall.name \in Range(listed')
            /\ tcall.op = "drop_table" => tcall.name \notin Range(listed')
       /\ (TableStep("drop_table") /\ WellFormed(tcall'.name) /\ ~tcall'.failed
             /\ Fold(tcall'.name) \notin exists) =>
            /\ tresult' = Ok(0)
            /\ UNCHANGED storeVars]_vars

\* C33: the names list_repository_tables returns are in descending order and
\* each begins with the literal prefix "repos_".
C33_ListedDescendingManagedOnly ==
    tcall.op = "list_repository_tables" =>
        /\ \A i \in 1..(Len(listed) - 1) : Less(listed[i + 1], listed[i])
        /\ \A i \in 1..Len(listed) :
              Len(listed[i]) >= 6 /\ SubSeq(listed[i], 1, 6) = "repos_"

\* C34: a call of create_repository_table changes the rows of no table and
\* removes no table, whatever was upserted before; on a table that is there
\* already it succeeds, unless the store fails a statement, and leaves the
\* set of tables as it is.
C34_CreateKeepsRows ==
    [][TableStep("create_repository_table") =>
          /\ committed' = committed
          /\ exists \subseteq exists'
          /\ (tcall'.name \in exists /\ ~tcall'.failed) =>
                /\ tresult' = Ok(0)
                /\ exists' = exists]_vars

\* C34 witness: create_repository_table has returned Ok for a table that is
\* there and holds an upserted row.
C34_Witness ==
    /\ tcall.op = "create_repository_table"
    /\ tcall.name \in TableNames
    /\ tresult = Ok(0)
    /\ tcall.name \in exists
    /\ committed[tcall.name] # {}
    /\ pc["c1"] = "idle"

\* C39: create_repository_table answers a name that does not match the
\* managed pattern with a Validation error and sends no SQL for it, and
\* get_table_stats answers such a name with a Validation error.
C39_CreateAndStatsValidateNames ==
    /\ (tcall.op = "create_repository_table" /\ ~WellFormed(tcall.name)) =>
          /\ tresult = Err("Validation")
          /\ issued = <<>>
    /\ (rpc = "done" /\ ~WellFormed(rtable)) => rresult.kind = "Validation"

(***************************************************************************)
(* Properties of generate_table_name.                                      *)
(***************************************************************************)

\* The digit a character is, or 10 for any other character.
DigitValue(ch) ==
    IF \E d \in 0..9 : SubSeq("0123456789", d + 1, d + 1) = ch
    THEN CHOOSE d \in 0..9 : SubSeq("0123456789", d + 1, d + 1) = ch
    ELSE 10

\* The number a string of digits reads as.
RECURSIVE Number(_)
Number(digits) ==
    IF digits = "" THEN 0
    ELSE Number(SubSeq(digits, 1, Len(digits) - 1)) * 10
            + DigitValue(SubSeq(digits, Len(digits), Len(digits)))

\* C36: every name generate_table_name returns is "repos_" followed by
\* fourteen digits, twenty characters in all, and the digits read as the
\* year, month, day, hour, minute and second of the UTC clock at the call;
\* of two successive calls under a clock that does not go back, the second
\* name is not below the first in lexicographic order, and the names are
\* equal when both calls fall in the same second.
C36_NamesTwentyCharsNonDecreasing ==
    /\ \A i \in 1..Len(generated) :
          LET n == generated[i].name
              at == generated[i].at
          IN  /\ Len(n) = 20
              /\ SubSeq(n, 1, 6) = "repos_"
              /\ \A j \in 7..20 : DigitValue(SubSeq(n, j, j)) < 10
              /\ Number(SubSeq(n, 7, 10)) = at.year
              /\ Number(SubSeq(n, 11, 12)) = at.month
              /\ Number(SubSeq(n, 13, 14)) = at.day
              /\ Number(SubSeq(n, 15, 16)) = at.hour
              /\ Number(SubSeq(n, 17, 18)) = at.minute
              /\ Number(SubSeq(n, 19, 20)) = at.second
    /\ Len(generated) = 2 =>
          /\ ~Less(generated[2].name, generated[1].name)
          /\ generated[1].at = generated[2].at => generated[1].name = generated[2].name

\* C36 witness: two successive calls have returned names, the first in the
\* last second of a minute and the second in a later month, at an hour of
\* one digit.
C36_Witness ==
    /\ Len(generated) = 2
    /\ generated[1].at.second = 59
    /\ generated[2].at.month = 12
    /\ generated[2].at.hour = 0
    /\ generated[1].name # generated[2].name

====
